---- MODULE Spec2Model ----
(***************************************************************************)
(* A model of the httpc client (github.com/mam-coder/httpc):                *)
(*   - NewClient and its options, which build the transport chain;          *)
(*   - the RoundTrip methods of the built-in wrappers, run as a call stack  *)
(*     of frames over a heap of request objects, body streams, responses;   *)
(*   - Response.Bytes and the accessors built on it;                        *)
(*   - RequestBuilder.applyHeaders under concurrent requests.               *)
(***************************************************************************)
EXTENDS Integers, Sequences, FiniteSets, TLC

\* ------------------------------------------------------------------ bounds
MaxOpts == 2            \* options passed to NewClient
MaxRetriesBound == 2    \* largest RetryConfig.MaxRetries tried
MaxCalls == 3           \* accessor calls made on one Response
NumRequests == 2        \* goroutines issuing a request through one Client
MaxIssued == 2          \* requests issued one after another through one Client
MaxHeaders == 2         \* headers on a request that DebugTransport logs
MaxTime == 4            \* seconds a timed request is followed for

\* ------------------------------------------------------- program constants
MaxBodySize == 1048576  \* DebugTransport.MaxBodySize, 1024 * 1024

\* ------------------------------------------------------------------ values
RECURSIVE SeqsUpTo(_, _)
SeqsUpTo(S, n) ==
    IF n = 0 THEN {<<>>}
    ELSE LET shorter == SeqsUpTo(S, n - 1)
         IN  shorter \cup {Append(s, x) : s \in {t \in shorter : Len(t) = n - 1}, x \in S}

\* The byte sequences tried as request bodies.
Bodies == {<<>>, <<1, 2>>}

\* URL hosts and blocked substrings are strings, modelled as character sequences.
Hosts == {<<"a", "b">>, <<"c">>}
BlockedLists == {<< <<"x">>, <<"b">> >>}

\* What the platform transport can answer: a response with one of these status
\* codes, or no response and a network error.
Statuses == {200, 404, 429, 500}
Outcomes ==
    {[status |-> s, err |-> "nil"] : s \in Statuses} \cup {[status |-> 0, err |-> "net"]}

\* strings.Contains
Contains(s, sub) ==
    \E i \in 0..(Len(s) - Len(sub)) : SubSeq(s, i + 1, i + Len(sub)) = sub

\* time.Sleep(d): returns immediately for d <= 0.
Sleep(d) == IF d <= 0 THEN 0 ELSE d

\* ------------------------------------------------------------- RetryConfig
RetryIfs == {"nil", "default"}

\* The values of RetryConfig.Backoff tried, in time units.
Backoffs == {0, 2}

RetryConfigs ==
    [MaxRetries : 0..MaxRetriesBound, Backoff : Backoffs, RetryIf : RetryIfs]

NoConfig == [MaxRetries |-> 0, Backoff |-> 0, RetryIf |-> "nil"]

\* defaultRetryCondition(resp, err); status is resp.StatusCode (0 when resp is nil).
defaultRetryCondition_Only5xx(status, err) ==
    IF err # "nil" THEN TRUE
    ELSE status >= 500

\* defaultRetryCondition(resp, err), on resp.StatusCode
defaultRetryCondition(status, err) ==
    IF err # "nil" THEN TRUE
    ELSE status >= 500 \/ status = 429

\* t.config.RetryIf(resp, err) for a non-nil RetryIf.
RetryIf(name, status, err) ==
    CASE name = "default" -> defaultRetryCondition(status, err)
      [] OTHER            -> FALSE

\* ----------------------------------------------------------------- strings
\* A Go string is the sequence of its characters.
Http == <<"h", "t", "t", "p", ":", "/", "/">>
Https == <<"h", "t", "t", "p", "s", ":", "/", "/">>

HasPrefix(str, prefix) ==
    Len(str) >= Len(prefix) /\ SubSeq(str, 1, Len(prefix)) = prefix
HasSuffix(str, suffix) ==
    Len(str) >= Len(suffix) /\ SubSeq(str, Len(str) - Len(suffix) + 1, Len(str)) = suffix
TrimSuffix(str, suffix) ==
    IF HasSuffix(str, suffix) THEN SubSeq(str, 1, Len(str) - Len(suffix)) ELSE str

RECURSIVE TrimLeft(_)
TrimLeft(str) ==
    IF str # <<>> /\ Head(str) = " " THEN TrimLeft(Tail(str)) ELSE str
RECURSIVE TrimRight(_)
TrimRight(str) ==
    IF str # <<>> /\ str[Len(str)] = " " THEN TrimRight(SubSeq(str, 1, Len(str) - 1)) ELSE str
TrimSpace(str) == TrimRight(TrimLeft(str))

\* A variant of isAbsoluteURL that knows http:// only.
isAbsoluteURL_HttpOnly(urlStr) == HasPrefix(urlStr, Http)

\* isAbsoluteURL(urlStr)
isAbsoluteURL(urlStr) == HasPrefix(urlStr, Http) \/ HasPrefix(urlStr, Https)

\* RequestBuilder.resolveURL, on rb.client.baseURL and rb.url
resolveURL(clientBaseURL, rbURL) ==
    LET baseURL == TrimSpace(clientBaseURL)
        requestURL == TrimSpace(rbURL)
        base == TrimSuffix(baseURL, <<"/">>)
    IN  IF isAbsoluteURL(requestURL) THEN requestURL
        ELSE IF baseURL = <<>> THEN requestURL
        ELSE IF requestURL = <<>> THEN base
        ELSE IF ~HasPrefix(requestURL, <<"/">>) THEN base \o <<"/">> \o requestURL
        ELSE base \o requestURL

\* req.URL.Host of a request made for the URL: what follows the scheme, up to
\* the path; empty when the URL has no scheme.
RECURSIVE UpTo(_, _)
UpTo(str, stops) ==
    IF str = <<>> \/ Head(str) \in stops THEN <<>>
    ELSE <<Head(str)>> \o UpTo(Tail(str), stops)
HostOf(urlStr) ==
    IF HasPrefix(urlStr, Https) THEN UpTo(SubSeq(urlStr, Len(Https) + 1, Len(urlStr)), {"/", "?"})
    ELSE IF HasPrefix(urlStr, Http) THEN UpTo(SubSeq(urlStr, Len(Http) + 1, Len(urlStr)), {"/", "?"})
    ELSE <<>>

\* ----------------------------------------------------------------- options
\* An Option that installs a wrapper is the wrapper it installs.
Wrapper(kind, config, blockedList) ==
    [kind |-> kind, config |-> config, blockedList |-> blockedList]

WithBaseAuth == Wrapper("baseAuth", NoConfig, <<>>)
WithAuthorization == Wrapper("auth", NoConfig, <<>>)
WithBlockedList(blockedList) == Wrapper("blockList", NoConfig, blockedList)
WithRetry(config) == Wrapper("retry", config, <<>>)
WithLogger == Wrapper("logging", NoConfig, <<>>)
WithDebug == Wrapper("debug", NoConfig, <<>>)

\* Options that install no wrapper.
WithBaseURL(baseURL) == [kind |-> "baseURL", baseURL |-> baseURL]
WithHeader(key, value) == [kind |-> "header", key |-> key, value |-> value]

Options ==
    {WithBaseAuth, WithAuthorization, WithLogger, WithDebug}
        \cup {WithBlockedList(b) : b \in BlockedLists}
        \cup {WithRetry(c) : c \in RetryConfigs}

\* The option lists tried: up to MaxOpts options, a retry wrapper at most once.
OptionLists ==
    {os \in SeqsUpTo(Options, MaxOpts) :
        \A i, j \in 1..Len(os) : os[i].kind = "retry" /\ os[j].kind = "retry" => i = j}

\* c.transport = interceptor(c.transport): the new wrapper holds the chain built
\* so far as its inner transport.  transport[1] is the outermost RoundTripper,
\* transport[i].transport is transport[i + 1], and the base transport follows
\* the last element.
WithInterceptor_Innermost(c, interceptor) ==
    [c EXCEPT !.transport = @ \o <<interceptor>>]

WithInterceptor(c, interceptor) ==
    [c EXCEPT !.transport = <<interceptor>> \o @]

\* opt(client), for the fields of the Client struct; WithHeader writes into
\* the map client.headers points to, see ClientHeaders.
ApplyOption(c, opt) ==
    CASE opt.kind = "baseURL" -> [c EXCEPT !.baseURL = opt.baseURL]
      [] opt.kind = "header"  -> c
      [] OTHER                -> WithInterceptor(c, opt)

RECURSIVE ApplyOptions(_, _)
ApplyOptions(c, os) ==
    IF os = <<>> THEN c
    ELSE ApplyOptions(ApplyOption(c, Head(os)), Tail(os))

\* A variant of NewClient that leaves httpClient.Transport as it was made.
NewClient_TransportNotInstalled(os) ==
    ApplyOptions([transport |-> <<>>, httpTransport |-> <<>>, baseURL |-> <<>>], os)

NewClient(os) ==
    LET c == ApplyOptions([transport |-> <<>>, httpTransport |-> <<>>, baseURL |-> <<>>], os)
    IN  [c EXCEPT !.httpTransport = c.transport]

\* ------------------------------------------------------------------- state
VARIABLES
    opts,       \* the options NewClient was called with, in call order
    client,     \* the Client: transport chain and httpClient.Transport
    phase,      \* "ready", "running", "done": the one request's progress
    ctx,        \* the request context: "live" or "cancelled"
    reqs,       \* heap of *http.Request objects: host, Authorization, Body
    streams,    \* heap of body streams: data, read position, closed
    stack,      \* call stack of RoundTrip frames, outermost first
    result,     \* what httpClient.Do got back from the chain
    baseCalls,  \* number of requests that reached the base transport
    issued,     \* number of requests built for this Client so far
    \* a Response and the calls of its accessors
    r,          \* the Response: its Body stream, Content-Encoding, body cache
    out,        \* what the latest accessor call returned
    hist,       \* reads of the Body, gzip decodes, calls, the first successful Bytes
    \* concurrent requests through one Client
    mu,         \* holder of client.mu (0: unlocked)
    headers,    \* client.headers
    gs,         \* the goroutines, each running one request
    setter,     \* a goroutine applying WithHeaders to the same Client
    \* DebugTransport's header log
    dbg,        \* two header sets, what is left to log of each, the two logs
    \* a function under study
    fn,         \* its name, its arguments, what it returned
    \* a request with timeouts
    tmo,        \* the clock, the two deadlines, the request's progress
    \* a RequestBuilder
    rb          \* rb.err, rb.body, its Content-Type, the calls made on it, what Do did

chainVars == <<opts, client, phase, ctx, reqs, streams, stack, result, baseCalls, issued>>
respVars == <<r, out, hist>>
concVars == <<mu, headers, gs, setter>>
logVars == <<dbg>>
pureVars == <<fn>>
timeVars == <<tmo>>
buildVars == <<rb>>
auxVars == <<logVars, pureVars, timeVars, buildVars>>
vars == <<chainVars, respVars, concVars, auxVars>>

\* A *http.Response: the n-th answer of the base transport and its status code.
NilResp == [id |-> 0, status |-> 0]

Frame(layer, req) ==
    [layer     |-> layer,     \* index in client.transport; Len + 1 is the base
     req       |-> req,       \* the *http.Request this RoundTrip was given
     pc        |-> "enter",
     attempt   |-> 0,         \* retryTransport: loop variable
     hasBytes  |-> FALSE,     \* retryTransport: bodyBytes != nil
     bodyBytes |-> <<>>,      \* retryTransport: the buffered body
     resp      |-> NilResp,   \* resp
     err       |-> "nil",     \* err
     sleepFor  |-> 0,         \* retryTransport: argument of the running time.Sleep
     \* history of this RoundTrip, kept for the properties
     inBody    |-> 0,         \* req.Body when RoundTrip was entered
     inData    |-> <<>>,      \* the unread bytes of that stream at entry
     calls     |-> 0,         \* calls of the inner transport made so far
     first404  |-> FALSE,     \* the first inner call answered 404
     rejected  |-> FALSE,     \* the predicate answered false for an earlier call
     afterRej  |-> FALSE,     \* the inner transport was called after such an answer
     allRetry  |-> TRUE,      \* every outcome so far meets defaultRetryCondition
     last      |-> [resp |-> NilResp, err |-> "nil"],  \* outcome of the latest inner call
     sleeps    |-> <<>>,      \* duration of each sleep started
     dropped   |-> <<>>]      \* the responses given up for a retry, and their Body's state

Top == stack[Len(stack)]
Depth == Len(stack)
NLayers == Len(client.transport)
IsBase(f) == f.layer = NLayers + 1
KindOf(f) == IF IsBase(f) THEN "base" ELSE client.transport[f.layer].kind
ConfigOf(f) == client.transport[f.layer].config

SetTop(f) == [stack EXCEPT ![Depth] = f]
\* t.transport.RoundTrip(req): the caller waits, the inner transport is entered.
CallInner(f, req) ==
    Append(SetTop([f EXCEPT !.pc = "wait", !.calls = @ + 1]), Frame(f.layer + 1, req))

\* io.ReadAll(r) on a stream: the unread bytes.
Unread(s) == SubSeq(s.data, s.pos + 1, Len(s.data))
\* reads counts the readers the stream has had (history, for the properties).
NewStream(data) == [data |-> data, pos |-> 0, closed |-> FALSE, reads |-> 0]
\* The heap once stream `old` has become garbage: a stream made for an earlier
\* attempt, which only requests of that attempt referred to.  `keep` is not freed.
Release(old, keep) ==
    IF old = 0 \/ old = keep THEN streams
    ELSE [streams EXCEPT ![old] = [data |-> <<>>, pos |-> 0, closed |-> TRUE, reads |-> 0]]

TypeOK ==
    /\ phase \in {"ready", "running", "done"}
    /\ ctx \in {"live", "cancelled"}
    /\ \A i \in 1..Depth : stack[i].layer = i

\* The other parts of the model, at rest.
RespIdle ==
    /\ r = [kind |-> "buffer", wire |-> <<>>, pos |-> 0, closed |-> FALSE, failAt |-> -1,
            encoding |-> "", cached |-> FALSE, body |-> <<>>]
    /\ out = [op |-> "none", bytes |-> <<>>, err |-> "nil"]
    /\ hist = [reads |-> 0, decodes |-> 0, calls |-> 0, ok |-> FALSE, okBytes |-> <<>>]

\* A map[string]string with no entries.
NoMap == [k \in {} |-> ""]

ConcIdle ==
    /\ mu = 0
    /\ headers = NoMap
    /\ gs = <<>>
    /\ setter = [pc |-> "done", m |-> NoMap, todo |-> {}]

LogIdle ==
    dbg = [h |-> <<NoMap, NoMap>>, todo |-> <<{}, {}>>, log |-> << <<>>, <<>> >>,
           pc |-> <<"done", "done">>]
PureIdle == fn = [name |-> "none", args |-> <<>>, ret |-> <<>>]
TimeIdle ==
    tmo = [pc |-> "idle", now |-> 0, clientTimeout |-> 0, timeout |-> 0, latency |-> 0,
           ctxDeadline |-> 0, clientDeadline |-> 0, cause |-> "none",
           ctx |-> "none", bodyErr |-> "none"]
BuildIdle ==
    rb = [pc |-> "idle", err |-> "nil", body |-> "nil", contentType |-> "",
          calls |-> <<>>, sent |-> 0, ret |-> "none"]
AuxIdle == LogIdle /\ PureIdle /\ TimeIdle /\ BuildIdle

ChainIdle ==
    /\ opts = <<>>
    /\ client = NewClient(<<>>)
    /\ phase = "done"
    /\ ctx = "live"
    /\ reqs = <<>>
    /\ streams = <<>>
    /\ stack = <<>>
    /\ result = [resp |-> NilResp, err |-> "nil"]
    /\ baseCalls = 0
    /\ issued = 0

\* ------------------------------------------------------------------- Init
\* The state after NewClient(opts...) returned and one request was built for it.
Init ==
    /\ RespIdle
    /\ ConcIdle
    /\ AuxIdle
    /\ opts \in OptionLists
    /\ client = NewClient(opts)
    /\ phase = "ready"
    /\ ctx = "live"
    /\ \E host \in Hosts, hasBody \in BOOLEAN, data \in Bodies :
          /\ hasBody \/ data = <<>>
          /\ reqs = << [host |-> host, auth |-> "none", body |-> IF hasBody THEN 1 ELSE 0] >>
          /\ streams = IF hasBody THEN << NewStream(data) >> ELSE <<>>
    /\ stack = <<>>
    /\ result = [resp |-> NilResp, err |-> "nil"]
    /\ baseCalls = 0
    /\ issued = 1

\* ------------------------------------------------------- client and context
\* c.httpClient.Do(req): the request enters the outermost RoundTripper.
ClientDo ==
    /\ phase = "ready"
    /\ phase' = "running"
    /\ stack' = << Frame(1, 1) >>
    /\ UNCHANGED <<respVars, concVars, auxVars, issued, opts, client, ctx, reqs, streams, result, baseCalls>>

\* The outermost RoundTrip returned.
ClientDoReturn ==
    /\ phase = "running"
    /\ Depth = 1
    /\ Top.pc = "done"
    /\ phase' = "done"
    /\ result' = [resp |-> Top.resp, err |-> Top.err]
    /\ stack' = <<>>
    /\ UNCHANGED <<respVars, concVars, auxVars, issued, opts, client, ctx, reqs, streams, baseCalls>>

\* The caller cancels the request's context, or its deadline passes.
Cancel ==
    /\ phase = "running"
    /\ ctx = "live"
    /\ ctx' = "cancelled"
    /\ UNCHANGED <<respVars, concVars, auxVars, issued, opts, client, phase, reqs, streams, stack, result, baseCalls>>

\* ------------------------------------------------------------ base transport
\* The platform transport built by defaultTransport(): it fails at once on a
\* cancelled context; otherwise it reads some of the body and answers with a
\* status or fails with a network error.
BaseRoundTrip ==
    /\ phase = "running"
    /\ Depth >= 1
    /\ IsBase(Top)
    /\ Top.pc = "enter"
    /\ baseCalls' = baseCalls + 1
    /\ LET body == reqs[Top.req].body IN
       IF ctx = "cancelled"
       THEN /\ stack' = SetTop([Top EXCEPT !.pc = "done", !.resp = NilResp, !.err = "ctx"])
            /\ UNCHANGED streams
       ELSE /\ IF body = 0 THEN UNCHANGED streams
               ELSE \E n \in streams[body].pos..Len(streams[body].data) :
                       streams' = [streams EXCEPT ![body].pos = n, ![body].closed = TRUE,
                                                  ![body].reads = @ + 1]
            /\ \E o \in Outcomes :
                  stack' = SetTop([Top EXCEPT
                      !.pc = "done",
                      !.resp = IF o.err = "nil"
                               THEN [id |-> baseCalls + 1, status |-> o.status]
                               ELSE NilResp,
                      !.err = o.err])
    /\ UNCHANGED <<respVars, concVars, auxVars, issued, opts, client, phase, ctx, reqs, result>>

\* --------------------------------------------------------- simple wrappers
\* req.Clone(ctx): a new request object sharing the Body stream.
Clone(req) == reqs[req]

\* A variant that sets the header on the request it was given.
AuthRoundTrip_InPlace ==
    /\ Depth >= 1 /\ ~IsBase(Top) /\ KindOf(Top) = "auth" /\ Top.pc = "enter"
    /\ reqs' = [reqs EXCEPT ![Top.req].auth = "Bearer"]
    /\ stack' = CallInner(Top, Top.req)
    /\ UNCHANGED <<respVars, concVars, auxVars, issued, opts, client, phase, ctx, streams, result, baseCalls>>

\* authTransport.RoundTrip
AuthRoundTrip ==
    /\ Depth >= 1 /\ ~IsBase(Top) /\ KindOf(Top) = "auth" /\ Top.pc = "enter"
    /\ reqs' = Append(reqs, [Clone(Top.req) EXCEPT !.auth = "Bearer"])
    /\ stack' = CallInner(Top, Len(reqs) + 1)
    /\ UNCHANGED <<respVars, concVars, auxVars, issued, opts, client, phase, ctx, streams, result, baseCalls>>

\* baseAuthTransport.RoundTrip
BaseAuthRoundTrip ==
    /\ Depth >= 1 /\ ~IsBase(Top) /\ KindOf(Top) = "baseAuth" /\ Top.pc = "enter"
    /\ reqs' = Append(reqs, [Clone(Top.req) EXCEPT !.auth = "Basic"])
    /\ stack' = CallInner(Top, Len(reqs) + 1)
    /\ UNCHANGED <<respVars, concVars, auxVars, issued, opts, client, phase, ctx, streams, result, baseCalls>>

Blocked_ExactMatch(blockedList, host) ==
    \E i \in 1..Len(blockedList) : host = blockedList[i]

\* The loop of blockListTransport.RoundTrip: is the host blocked?
Blocked(blockedList, host) ==
    \E i \in 1..Len(blockedList) : Contains(host, blockedList[i])

\* blockListTransport.RoundTrip
BlockListRoundTrip ==
    /\ Depth >= 1 /\ ~IsBase(Top) /\ KindOf(Top) = "blockList" /\ Top.pc = "enter"
    /\ reqs' = Append(reqs, Clone(Top.req))
    /\ IF Blocked(client.transport[Top.layer].blockedList, reqs[Top.req].host)
       THEN stack' = SetTop([Top EXCEPT !.pc = "done", !.resp = NilResp, !.err = "blocked"])
       ELSE stack' = CallInner(Top, Len(reqs) + 1)
    /\ UNCHANGED <<respVars, concVars, auxVars, issued, opts, client, phase, ctx, streams, result, baseCalls>>

\* loggingTransport.RoundTrip, up to its call of the inner transport.
LoggingRoundTrip ==
    /\ Depth >= 1 /\ ~IsBase(Top) /\ KindOf(Top) = "logging" /\ Top.pc = "enter"
    /\ stack' = CallInner(Top, Top.req)
    /\ UNCHANGED <<respVars, concVars, auxVars, issued, opts, client, phase, ctx, reqs, streams, result, baseCalls>>

\* io.LimitReader(r, n) read to its end: at most n of the unread bytes.
LimitRead(s, n) ==
    LET u == Unread(s) IN IF Len(u) <= n THEN u ELSE SubSeq(u, 1, n)

\* DebugTransport.RoundTrip with Debug and LogBody set, up to its call of the
\* inner transport: the request body is read and replaced by a buffer.
DebugRoundTrip ==
    /\ Depth >= 1 /\ ~IsBase(Top) /\ KindOf(Top) = "debug" /\ Top.pc = "enter"
    /\ LET body == reqs[Top.req].body IN
       IF body # 0
       THEN LET read == LimitRead(streams[body], MaxBodySize) IN
            /\ streams' = Append([streams EXCEPT ![body].pos = @ + Len(read),
                                                  ![body].reads = @ + 1],
                                 NewStream(read))
            /\ reqs' = [reqs EXCEPT ![Top.req].body = Len(streams) + 1]
       ELSE UNCHANGED <<streams, reqs>>
    /\ stack' = CallInner(Top, Top.req)
    /\ UNCHANGED <<respVars, concVars, auxVars, issued, opts, client, phase, ctx, result, baseCalls>>

\* The inner transport returned to a wrapper that hands its result on unchanged
\* (return t.transport.RoundTrip(req); the logging and debug wrappers log first).
WrapperReturn ==
    /\ Depth >= 2
    /\ Top.pc = "done"
    /\ LET caller == stack[Depth - 1] IN
       /\ KindOf(caller) \in {"auth", "baseAuth", "blockList", "logging", "debug",
                              "headerTransport"}
       /\ caller.pc = "wait"
       /\ stack' = Append(SubSeq(stack, 1, Depth - 2),
                          [caller EXCEPT !.pc = "done", !.resp = Top.resp, !.err = Top.err])
    /\ UNCHANGED <<respVars, concVars, auxVars, issued, opts, client, phase, ctx, reqs, streams, result, baseCalls>>

\* ------------------------------------------------------------ retryTransport
\* RoundTrip, lines before the loop: the body is read into memory and closed.
RetryEnter ==
    /\ Depth >= 1 /\ ~IsBase(Top) /\ KindOf(Top) = "retry" /\ Top.pc = "enter"
    /\ LET body == reqs[Top.req].body IN
       IF body # 0
       THEN /\ streams' = [streams EXCEPT ![body].pos = Len(streams[body].data),
                                          ![body].closed = TRUE,
                                          ![body].reads = @ + 1]
            /\ stack' = SetTop([Top EXCEPT !.pc = "loop", !.attempt = 0,
                                          !.hasBytes = TRUE,
                                          !.bodyBytes = Unread(streams[body]),
                                          !.inBody = body,
                                          !.inData = Unread(streams[body])])
       ELSE /\ stack' = SetTop([Top EXCEPT !.pc = "loop", !.attempt = 0])
            /\ UNCHANGED streams
    /\ UNCHANGED <<respVars, concVars, auxVars, issued, opts, client, phase, ctx, reqs, result, baseCalls>>

ResetBody_FirstPassOnly(attempt, hasBytes) == hasBytes /\ attempt = 0

\* if bodyBytes != nil { req.Body = ... }: the test, made in every pass.
ResetBody(attempt, hasBytes) == hasBytes

\* One pass of the loop up to the call of the inner transport: the loop test,
\* the body reset, t.transport.RoundTrip(req).
RetryAttempt ==
    /\ Depth >= 1 /\ ~IsBase(Top) /\ KindOf(Top) = "retry" /\ Top.pc = "loop"
    /\ IF Top.attempt <= ConfigOf(Top).MaxRetries
       THEN /\ IF ResetBody(Top.attempt, Top.hasBytes)
               THEN /\ streams' = Append(Release(reqs[Top.req].body, Top.inBody),
                                         NewStream(Top.bodyBytes))
                    /\ reqs' = [reqs EXCEPT ![Top.req].body = Len(streams) + 1]
               ELSE UNCHANGED <<streams, reqs>>
            /\ stack' = CallInner([Top EXCEPT !.afterRej = @ \/ Top.rejected], Top.req)
       ELSE /\ stack' = SetTop([Top EXCEPT !.pc = "done"])
            /\ UNCHANGED <<streams, reqs>>
    /\ UNCHANGED <<respVars, concVars, auxVars, issued, opts, client, phase, ctx, result, baseCalls>>

\* shouldRetry := t.config.RetryIf != nil && t.config.RetryIf(resp, err)
ShouldRetry(config, status, err) ==
    config.RetryIf # "nil" /\ RetryIf(config.RetryIf, status, err)

Assign_Shadowed(old, new) == old

\* resp, err = t.transport.RoundTrip(req): the variables RoundTrip returns are
\* overwritten by the outcome of the call.
Assign(old, new) == new

MayRetry_OneFewer(attempt, config, shouldRetry) ==
    attempt + 1 < config.MaxRetries /\ shouldRetry

MayRetry_IgnoresPredicate(attempt, config, shouldRetry) ==
    attempt < config.MaxRetries

\* attempt < t.config.MaxRetries && shouldRetry
MayRetry(attempt, config, shouldRetry) ==
    attempt < config.MaxRetries /\ shouldRetry

BackoffFor_FromZero(config, attempt) == config.Backoff * attempt

\* t.config.Backoff * time.Duration(attempt+1)
BackoffFor(config, attempt) == config.Backoff * (attempt + 1)

\* time.Sleep(...); continue: the response of this attempt is given up, resp
\* is overwritten in the next pass.  Nothing was done to its Body.
Dropped(dropped, resp) ==
    IF resp = NilResp THEN dropped
    ELSE Append(dropped, [id |-> resp.id, closed |-> FALSE])

\* The rest of the pass: the inner transport returned; retry after a sleep, or
\* leave the loop and return.
RetryAfter ==
    /\ Depth >= 2
    /\ Top.pc = "done"
    /\ LET f == stack[Depth - 1]
           config == ConfigOf(f)
           shouldRetry == ShouldRetry(config, Top.resp.status, Top.err)
           got == [resp |-> Top.resp, err |-> Top.err]
           new == Assign([resp |-> f.resp, err |-> f.err], got)
           g == [f EXCEPT !.resp = new.resp, !.err = new.err,
                          !.last = got,
                          !.first404 = IF f.calls = 1
                                       THEN got.err = "nil" /\ got.resp.status = 404
                                       ELSE @,
                          !.rejected = @ \/ ~shouldRetry,
                          !.allRetry = @ /\ defaultRetryCondition(Top.resp.status, Top.err)]
       IN
       /\ KindOf(f) = "retry"
       /\ f.pc = "wait"
       /\ IF MayRetry(f.attempt, config, shouldRetry)
          THEN LET d == Sleep(BackoffFor(config, f.attempt)) IN
               stack' = Append(SubSeq(stack, 1, Depth - 2),
                               [g EXCEPT !.pc = "sleep", !.sleepFor = d,
                                         !.sleeps = Append(@, d),
                                         !.dropped = Dropped(@, got.resp)])
          ELSE stack' = Append(SubSeq(stack, 1, Depth - 2), [g EXCEPT !.pc = "done"])
    /\ UNCHANGED <<respVars, concVars, auxVars, issued, opts, client, phase, ctx, reqs, streams, result, baseCalls>>

\* time.Sleep returned after the whole duration; continue with the next attempt.
RetrySleepDone ==
    /\ Depth >= 1 /\ ~IsBase(Top) /\ KindOf(Top) = "retry" /\ Top.pc = "sleep"
    /\ stack' = SetTop([Top EXCEPT !.pc = "loop", !.attempt = @ + 1, !.sleepFor = 0])
    /\ UNCHANGED <<respVars, concVars, auxVars, issued, opts, client, phase, ctx, reqs, streams, result, baseCalls>>

\* ---------------------------------------------------------- specification
Next ==
    \/ ClientDo
    \/ ClientDoReturn
    \/ Cancel
    \/ BaseRoundTrip
    \/ AuthRoundTrip
    \/ BaseAuthRoundTrip
    \/ BlockListRoundTrip
    \/ LoggingRoundTrip
    \/ DebugRoundTrip
    \/ WrapperReturn
    \/ RetryEnter
    \/ RetryAttempt
    \/ RetryAfter
    \/ RetrySleepDone

Spec == Init /\ [][Next]_vars

\* ============================================================== Response
\* A toy gzip with the shape of the real one: a magic header, the payload
\* (stored, not deflated), and a trailer of checksum and length.
GzipMagic == <<31, 139>>

RECURSIVE SumBytes(_)
SumBytes(b) == IF b = <<>> THEN 0 ELSE Head(b) + SumBytes(Tail(b))

Crc(b) == SumBytes(b) % 256

\* gzip.NewWriter / Write / Close, as a server or a test compresses a body.
Gzip(b) == GzipMagic \o b \o <<Crc(b), Len(b)>>

\* A variant of decodeGzipBody that returns no bytes with an error.
decodeGzipBody_NilOnError(body) ==
    IF Len(body) = 0 THEN [bytes |-> body, err |-> "nil"]
    ELSE IF ~(Len(body) >= 2 /\ SubSeq(body, 1, 2) = GzipMagic)
    THEN [bytes |-> <<>>, err |-> "gzip: invalid header"]
    ELSE LET payload == SubSeq(body, 3, Len(body) - 2) IN
         IF Len(body) >= 4 /\ body[Len(body) - 1] = Crc(payload)
                           /\ body[Len(body)] = Len(payload)
         THEN [bytes |-> payload, err |-> "nil"]
         ELSE [bytes |-> <<>>, err |-> "gzip: invalid checksum"]

\* decodeGzipBody(body): the decoded bytes, or the body as given and an error.
decodeGzipBody(body) ==
    IF Len(body) = 0 THEN [bytes |-> body, err |-> "nil"]
    ELSE IF ~(Len(body) >= 2 /\ SubSeq(body, 1, 2) = GzipMagic)
    THEN [bytes |-> body, err |-> "gzip: invalid header"]
    ELSE LET payload == SubSeq(body, 3, Len(body) - 2) IN
         IF Len(body) >= 4 /\ body[Len(body) - 1] = Crc(payload)
                           /\ body[Len(body)] = Len(payload)
         THEN [bytes |-> payload, err |-> "nil"]
         ELSE [bytes |-> body, err |-> "gzip: invalid checksum"]

\* The Content-Encoding values tried, and strings.ToLower on them.
Encodings == {"", "gzip", "GZIP", "Gzip", "deflate", "gzip, deflate"}
ToLower(str) == IF str \in {"GZIP", "Gzip"} THEN "gzip" ELSE str

\* A variant of isGzipEncoded that compares the value as it is written.
isGzipEncoded_CaseSensitive(contentEncoding) == contentEncoding = "gzip"

\* isGzipEncoded(contentEncoding)
isGzipEncoded(contentEncoding) == ToLower(contentEncoding) = "gzip"

\* The bodies a server may put on the wire.
Payloads == {<<>>, <<1>>, <<1, 2>>}
Wires ==
    Payloads \cup {Gzip(b) : b \in Payloads}
             \cup {GzipMagic, GzipMagic \o <<1, 7, 7>>}

\* io.ReadAll(r.Body).  An "http" body is the platform's: a read of it may fail
\* after failAt bytes (failAt = -1: it does not fail), and any read after Close
\* fails.  A "buffer" body is the io.NopCloser(bytes.NewBuffer(..)) that
\* DebugTransport puts in place of it: Close does nothing, a read never fails.
ReadAll(b) ==
    IF b.kind = "http" /\ b.closed
    THEN [bytes |-> <<>>, err |-> "read on closed body", pos |-> b.pos]
    ELSE IF b.kind = "http" /\ b.failAt >= b.pos
    THEN [bytes |-> SubSeq(b.wire, b.pos + 1, b.failAt), err |-> "unexpected EOF",
          pos |-> b.failAt]
    ELSE [bytes |-> SubSeq(b.wire, b.pos + 1, Len(b.wire)), err |-> "nil",
          pos |-> Len(b.wire)]

\* A variant of the cache test that takes a closed Body for a cached one.
Cached_OrClosed(resp) == resp.cached \/ resp.closed

\* if r.body != nil
Cached(resp) == resp.cached

\* Response.Bytes(): the Response afterwards, the returned bytes and error, and
\* whether the Body was read and the gzip decoder run.
Bytes(resp) ==
    IF Cached(resp)
    THEN [r |-> resp, bytes |-> resp.body, err |-> "nil", read |-> 0, decoded |-> 0]
    ELSE LET got == ReadAll(resp)
             closed == [resp EXCEPT !.pos = got.pos, !.closed = TRUE]
         IN
         IF got.err # "nil"
         THEN [r |-> closed, bytes |-> <<>>, err |-> got.err, read |-> 1, decoded |-> 0]
         ELSE IF isGzipEncoded(resp.encoding)
         THEN LET dec == decodeGzipBody(got.bytes) IN
              IF dec.err # "nil"
              THEN [r |-> closed, bytes |-> <<>>, err |-> dec.err, read |-> 1, decoded |-> 1]
              ELSE [r |-> [closed EXCEPT !.cached = TRUE, !.body = dec.bytes],
                    bytes |-> dec.bytes, err |-> "nil", read |-> 1, decoded |-> 1]
         ELSE [r |-> [closed EXCEPT !.cached = TRUE, !.body = got.bytes],
               bytes |-> got.bytes, err |-> "nil", read |-> 1, decoded |-> 0]

\* json.Unmarshal, xml.Unmarshal, csv ReadAll on the bytes: whether they parse.
\* Empty input is an error for JSON and XML and no records for CSV; which other
\* inputs parse is fixed here by their first byte.
Parses(op, bytes) ==
    CASE op = "JSON" -> bytes # <<>> /\ Head(bytes) = 1
      [] op = "XML"  -> bytes # <<>> /\ Head(bytes) = 2
      [] OTHER       -> TRUE

\* One accessor call: Bytes itself, or String, JSON, XML, CSV, which call Bytes
\* and then convert or parse what it returned.
Accessor(op) ==
    /\ hist.calls < MaxCalls
    /\ LET b == Bytes(r) IN
       /\ r' = b.r
       /\ out' = [op |-> op, bytes |-> b.bytes,
                  err |-> IF b.err # "nil" THEN b.err
                          ELSE IF Parses(op, b.bytes) THEN "nil" ELSE "parse error"]
       /\ hist' = [reads   |-> hist.reads + b.read,
                   decodes |-> hist.decodes + b.decoded,
                   calls   |-> hist.calls + 1,
                   ok      |-> hist.ok \/ b.err = "nil",
                   okBytes |-> IF ~hist.ok /\ b.err = "nil" THEN b.bytes ELSE hist.okBytes]
    /\ UNCHANGED <<chainVars, concVars, auxVars>>

RespBytes == Accessor("Bytes")
RespString == Accessor("String")
RespJSON == Accessor("JSON")
RespXML == Accessor("XML")
RespCSV == Accessor("CSV")

\* A Response as Client.doRequest returns it: nothing read, nothing cached.
InitResp ==
    /\ ChainIdle
    /\ ConcIdle
    /\ AuxIdle
    /\ \E kind \in {"http", "buffer"}, wire \in Wires, encoding \in Encodings :
       \E failAt \in -1..Len(wire) :
          /\ kind = "buffer" => failAt = -1
          /\ r = [kind |-> kind, wire |-> wire, pos |-> 0, closed |-> FALSE,
                  failAt |-> failAt, encoding |-> encoding,
                  cached |-> FALSE, body |-> <<>>]
    /\ out = [op |-> "none", bytes |-> <<>>, err |-> "nil"]
    /\ hist = [reads |-> 0, decodes |-> 0, calls |-> 0, ok |-> FALSE, okBytes |-> <<>>]

NextResp ==
    \/ RespBytes
    \/ RespString
    \/ RespJSON
    \/ RespXML
    \/ RespCSV

SpecResp == InitResp /\ [][NextResp]_vars

\* =================================================== concurrent requests
\* Header names used, and textproto.CanonicalMIMEHeaderKey, which
\* http.Header.Set and http.Header.Get apply to the name they are given.
HeaderKeys == {"X-App", "x-app", "Accept"}
CanonicalKey(k) == IF k = "x-app" THEN "X-App" ELSE k
WireKeys == {"X-App", "Accept", "User-Agent", "Accept-Encoding"}

\* An http.Header: the value under each canonical name, "" where Get finds none.
NoHeader == [k \in WireKeys |-> ""]
HeaderSet(h, key, value) == [h EXCEPT ![CanonicalKey(key)] = value]
HeaderGet(h, key) == h[CanonicalKey(key)]

\* m[k] = v on a map[string]string.
Put(m, k, v) == [x \in DOMAIN m \cup {k} |-> IF x = k THEN v ELSE m[x]]

\* client.headers after NewClient(WithHeader(..)...), the headers one request
\* adds with Header(k, v), and the map a later WithHeaders is given.
ClientHeaderMaps ==
    {NoMap, "X-App" :> "1", "X-App" :> "1" @@ "Accept" :> "2",
     "X-App" :> "1" @@ "x-app" :> "2"}
RequestHeaderMaps == {NoMap, "Accept" :> "r", "x-app" :> "r"}
SetterMaps == {NoMap, "X-App" :> "3" @@ "Accept" :> "3"}

SetterId == NumRequests + 1
Goroutines == 1..NumRequests

\* A goroutine before its call of client.Get.
NewGoroutine ==
    [pc |-> "go", rb |-> NoMap, todo |-> {}, req |-> NoHeader,
     seen |-> NoMap, unlocked |-> FALSE, resp |-> [to |-> 0, status |-> 0],
     attempt |-> 0,     \* retryTransport: loop variable
     asleep |-> {}]     \* history: the goroutines in time.Sleep when this one began

\* client.Get(url, opts...): NewRequest, the request options, then Do up to
\* http.NewRequestWithContext.
Get(g) ==
    /\ gs[g].pc = "go"
    /\ \E h \in RequestHeaderMaps :
          gs' = [gs EXCEPT ![g].rb = h, ![g].req = NoHeader, ![g].pc = "lock",
                           ![g].asleep = {x \in Goroutines : gs[x].pc = "sleep"}]
    /\ UNCHANGED <<chainVars, respVars, auxVars, mu, headers, setter>>

\* A variant of Lock that returns without taking the mutex.
Lock_NotTaken(g) == mu' = mu

\* rb.client.mu.Lock()
Lock(g) == mu = 0 /\ mu' = g

\* applyHeaders: take the mutex and start ranging over client.headers.
ApplyLock(g) ==
    /\ gs[g].pc = "lock"
    /\ Lock(g)
    /\ gs' = [gs EXCEPT ![g].pc = "range", ![g].todo = DOMAIN headers,
                        ![g].seen = headers]
    /\ UNCHANGED <<chainVars, respVars, auxVars, headers, setter>>

\* applyHeaders: one pass of the range loop, in map order (any order).
ApplyRange(g) ==
    /\ gs[g].pc = "range"
    /\ \E k \in gs[g].todo :
          gs' = [gs EXCEPT ![g].req = HeaderSet(@, k, headers[k]),
                           ![g].todo = @ \ {k},
                           ![g].unlocked = @ \/ mu # g]
    /\ UNCHANGED <<chainVars, respVars, auxVars, mu, headers, setter>>

\* setDefaultHeaders(req)
setDefaultHeaders(h) ==
    LET h1 == IF HeaderGet(h, "User-Agent") = ""
              THEN HeaderSet(h, "User-Agent", "go-httpc/1.0") ELSE h
        h2 == IF HeaderGet(h1, "Accept") = "" THEN HeaderSet(h1, "Accept", "*/*") ELSE h1
    IN  IF HeaderGet(h2, "Accept-Encoding") = ""
        THEN HeaderSet(h2, "Accept-Encoding", "*") ELSE h2

\* The range over rb.headers; the maps tried hold at most one entry.
ApplyOwn(h, own) ==
    IF DOMAIN own = {} THEN h
    ELSE LET k == CHOOSE x \in DOMAIN own : TRUE IN HeaderSet(h, k, own[k])

\* A variant of applyHeaders that never unlocks.
ApplyUnlock_Missing(g) ==
    /\ gs[g].pc = "range"
    /\ gs[g].todo = {}
    /\ mu' = mu
    /\ gs' = [gs EXCEPT ![g].req = setDefaultHeaders(ApplyOwn(@, gs[g].rb)),
                        ![g].pc = "send"]
    /\ UNCHANGED <<chainVars, respVars, auxVars, headers, setter>>

\* applyHeaders: the loop is over; unlock, then the request's own headers and
\* the defaults, all on this goroutine's request.
ApplyUnlock(g) ==
    /\ gs[g].pc = "range"
    /\ gs[g].todo = {}
    /\ mu' = IF mu = g THEN 0 ELSE mu
    /\ gs' = [gs EXCEPT ![g].req = setDefaultHeaders(ApplyOwn(@, gs[g].rb)),
                        ![g].pc = "send"]
    /\ UNCHANGED <<chainVars, respVars, auxVars, headers, setter>>

\* client.doRequest(req): httpClient.Do puts the request on its connection.
doRequest(g) ==
    /\ gs[g].pc = "send"
    /\ gs' = [gs EXCEPT ![g].pc = "wait"]
    /\ UNCHANGED <<chainVars, respVars, auxVars, mu, headers, setter>>

\* The server answers 200 on that connection and doRequest returns the Response.
Serve(g) ==
    /\ gs[g].pc = "wait"
    /\ gs' = [gs EXCEPT ![g].resp = [to |-> g, status |-> 200], ![g].pc = "done"]
    /\ UNCHANGED <<chainVars, respVars, auxVars, mu, headers, setter>>

\* WithHeaders(m)(client) on the Client in use: c.mu.Lock()
SetLock ==
    /\ setter.pc = "go"
    /\ mu = 0
    /\ mu' = SetterId
    /\ setter' = [setter EXCEPT !.pc = "range", !.todo = DOMAIN setter.m]
    /\ UNCHANGED <<chainVars, respVars, auxVars, headers, gs>>

\* c.headers[key] = value
SetWrite ==
    /\ setter.pc = "range"
    /\ \E k \in setter.todo :
          /\ headers' = Put(headers, k, setter.m[k])
          /\ setter' = [setter EXCEPT !.todo = @ \ {k}]
    /\ UNCHANGED <<chainVars, respVars, auxVars, mu, gs>>

\* defer c.mu.Unlock()
SetUnlock ==
    /\ setter.pc = "range"
    /\ setter.todo = {}
    /\ mu' = 0
    /\ setter' = [setter EXCEPT !.pc = "done"]
    /\ UNCHANGED <<chainVars, respVars, auxVars, headers, gs>>

InitConc ==
    /\ ChainIdle
    /\ RespIdle
    /\ AuxIdle
    /\ mu = 0
    /\ headers \in ClientHeaderMaps
    /\ gs = [g \in Goroutines |-> NewGoroutine]
    /\ \E m \in SetterMaps : setter = [pc |-> "go", m |-> m, todo |-> {}]

NextConc ==
    \/ \E g \in Goroutines : Get(g)
    \/ \E g \in Goroutines : ApplyLock(g)
    \/ \E g \in Goroutines : ApplyRange(g)
    \/ \E g \in Goroutines : ApplyUnlock(g)
    \/ \E g \in Goroutines : doRequest(g)
    \/ \E g \in Goroutines : Serve(g)
    \/ SetLock
    \/ SetWrite
    \/ SetUnlock

\* Every goroutine is scheduled again and again, and sync.RWMutex hands the
\* lock to a waiter once it is free; there are finitely many steps to take.
SpecConc == InitConc /\ [][NextConc]_vars /\ WF_vars(NextConc)

\* ============================================ requests one after another
\* client.headers after NewClient(os...): the map the WithHeader options wrote.
RECURSIVE ClientHeaders(_)
ClientHeaders(os) ==
    IF os = <<>> THEN NoMap
    ELSE LET o == os[Len(os)]
             m == ClientHeaders(SubSeq(os, 1, Len(os) - 1))
         IN  IF o.kind = "header" THEN Put(m, o.key, o.value) ELSE m

\* The options tried: every wrapper once, a base URL, a default header.
BaseURLs == {Http \o <<"a", "b">>, <<" ">> \o Http \o <<"c">> \o <<"/">>}
RequestURLs == {<<"/", "p">>, <<"p">>, Https \o <<"a", "b">> \o <<"/", "p">>}
SeqOptions ==
    {WithBaseAuth, WithAuthorization, WithLogger, WithDebug,
     WithHeader("X-App", "1"),
     WithRetry([MaxRetries |-> 1, Backoff |-> 2, RetryIf |-> "default"])}
        \cup {WithBlockedList(b) : b \in BlockedLists}
        \cup {WithBaseURL(u) : u \in BaseURLs}
SeqOptionLists ==
    {os \in SeqsUpTo(SeqOptions, MaxOpts) :
        \A i, j \in 1..Len(os) : os[i].kind = "retry" /\ os[j].kind = "retry" => i = j}

\* applyHeaders on a new request: the client headers, read with client.mu
\* held, then the builder's own (none here), then the defaults.
applyHeaders(clientHeaders) ==
    LET k == CHOOSE x \in DOMAIN clientHeaders : TRUE IN
    setDefaultHeaders(IF DOMAIN clientHeaders = {} THEN NoHeader
                      ELSE HeaderSet(NoHeader, k, clientHeaders[k]))

\* The *http.Request RequestBuilder.Do makes: buildURL, NewRequestWithContext,
\* applyHeaders.
NewRequestWithContext(c, clientHeaders, rbURL, hasBody) ==
    [host   |-> HostOf(resolveURL(c.baseURL, rbURL)),
     auth   |-> "none",
     body   |-> IF hasBody THEN 1 ELSE 0,
     header |-> applyHeaders(clientHeaders)]

\* The state after NewClient(opts...) returned and Do built the first request.
InitSeq ==
    /\ RespIdle
    /\ AuxIdle
    /\ mu = 0
    /\ gs = <<>>
    /\ setter = [pc |-> "done", m |-> NoMap, todo |-> {}]
    /\ opts \in SeqOptionLists
    /\ client = NewClient(opts)
    /\ headers = ClientHeaders(opts)
    /\ phase = "ready"
    /\ ctx = "live"
    /\ \E rbURL \in RequestURLs, hasBody \in BOOLEAN :
          /\ reqs = << NewRequestWithContext(client, headers, rbURL, hasBody) >>
          /\ streams = IF hasBody THEN << NewStream(<<1, 2>>) >> ELSE <<>>
    /\ stack = <<>>
    /\ result = [resp |-> NilResp, err |-> "nil"]
    /\ baseCalls = 0
    /\ issued = 1

\* RequestBuilder.Do for the next request, once the one before has returned.
Do ==
    /\ phase = "done"
    /\ issued < MaxIssued
    /\ mu = 0
    /\ issued' = issued + 1
    /\ phase' = "ready"
    /\ ctx' = "live"
    /\ \E rbURL \in RequestURLs, hasBody \in BOOLEAN :
          /\ reqs' = << NewRequestWithContext(client, headers, rbURL, hasBody) >>
          /\ streams' = IF hasBody THEN << NewStream(<<1, 2>>) >> ELSE <<>>
    /\ stack' = <<>>
    /\ result' = [resp |-> NilResp, err |-> "nil"]
    /\ baseCalls' = 0
    /\ UNCHANGED <<respVars, concVars, auxVars, opts, client>>

NextSeq ==
    \/ Do
    \/ Next

SpecSeq == InitSeq /\ [][NextSeq]_vars

\* ===================================================== DebugTransport log
\* strings.ToLower, character by character.
Uppers == <<"A", "B", "C", "D", "E", "F", "G", "H", "I", "J", "K", "L", "M", "N", "O", "P", "Q", "R", "S", "T", "U", "V", "W", "X", "Y", "Z">>
Lowers == <<"a", "b", "c", "d", "e", "f", "g", "h", "i", "j", "k", "l", "m", "n", "o", "p", "q", "r", "s", "t", "u", "v", "w", "x", "y", "z">>
LowerChar(c) ==
    IF \E i \in 1..Len(Uppers) : Uppers[i] = c
    THEN Lowers[CHOOSE i \in 1..Len(Uppers) : Uppers[i] = c]
    ELSE c
ToLowerChars(str) == [i \in 1..Len(str) |-> LowerChar(str[i])]

\* sensitiveHeaders in isSensitive
sensitiveHeaders ==
    << <<"a", "u", "t", "h", "o", "r", "i", "z", "a", "t", "i", "o", "n">>,
       <<"a", "p", "i", "-", "k", "e", "y">>,
       <<"x", "-", "a", "p", "i", "-", "k", "e", "y">>,
       <<"c", "o", "o", "k", "i", "e">> >>

\* A variant of isSensitive that compares the name as it is written.
isSensitive_CaseSensitive(header) ==
    \E i \in 1..Len(sensitiveHeaders) : Contains(header, sensitiveHeaders[i])

\* DebugTransport.isSensitive(header)
isSensitive(header) ==
    LET lowerCaseHeader == ToLowerChars(header) IN
    \E i \in 1..Len(sensitiveHeaders) : Contains(lowerCaseHeader, sensitiveHeaders[i])

Placeholder == "***MODIFIED***SENSITIVE HEADER***"

\* Header names as they occur as keys of an http.Header, and the value lists.
H_Authorization == <<"A", "u", "t", "h", "o", "r", "i", "z", "a", "t", "i", "o", "n">>
H_XApiKey == <<"X", "-", "A", "p", "i", "-", "K", "e", "y">>
H_SetCookie == <<"S", "e", "t", "-", "C", "o", "o", "k", "i", "e">>
H_COOKIE == <<"C", "O", "O", "K", "I", "E">>
H_Accept == <<"A", "c", "c", "e", "p", "t">>
LoggedNames == {H_Authorization, H_XApiKey, H_SetCookie, H_COOKIE, H_Accept}
ValueLists == {<<"s1">>, <<"s2">>, <<"s1", "s2">>}
HeaderSets ==
    UNION {[names -> ValueLists] :
              names \in {n \in SUBSET LoggedNames : Cardinality(n) <= MaxHeaders}}

\* t.Logger.Printf("%s:", title) and t.Logger.Printf("\t%s: %s", key, value)
TitleLine == [key |-> <<>>, value |-> "Headers:"]
HeaderLine(key, value) == [key |-> key, value |-> value]

\* The inner loop of logHeaders: one line for each value of the header.
RECURSIVE LinesFor(_, _)
LinesFor(key, values) ==
    IF values = <<>> THEN <<>>
    ELSE <<HeaderLine(key, IF isSensitive(key) THEN Placeholder ELSE Head(values))>>
             \o LinesFor(key, Tail(values))

\* logHeaders is entered for the i-th header set: nothing is logged for an
\* empty one, the title otherwise.  The second set is logged after the first.
LogHeadersEnter(i) ==
    /\ dbg.pc[i] = "start"
    /\ i = 2 => dbg.pc[1] = "done"
    /\ dbg' = IF DOMAIN dbg.h[i] = {}
              THEN [dbg EXCEPT !.pc[i] = "done"]
              ELSE [dbg EXCEPT !.pc[i] = "range", !.todo[i] = DOMAIN dbg.h[i],
                               !.log[i] = Append(@, TitleLine)]
    /\ UNCHANGED <<chainVars, respVars, concVars, pureVars, timeVars, buildVars>>

\* One pass of the outer loop of logHeaders, in map order (any order).
LogHeadersRange(i) ==
    /\ dbg.pc[i] = "range"
    /\ \E key \in dbg.todo[i] :
          dbg' = [dbg EXCEPT !.log[i] = @ \o LinesFor(key, dbg.h[i][key]),
                             !.todo[i] = @ \ {key},
                             !.pc[i] = IF dbg.todo[i] = {key} THEN "done" ELSE "range"]
    /\ UNCHANGED <<chainVars, respVars, concVars, pureVars, timeVars, buildVars>>

\* Two header sets with the same names and as many values for each name.
InitLog ==
    /\ ChainIdle
    /\ RespIdle
    /\ ConcIdle
    /\ PureIdle
    /\ TimeIdle
    /\ BuildIdle
    /\ \E h1, h2 \in HeaderSets :
          /\ DOMAIN h1 = DOMAIN h2
          /\ \A k \in DOMAIN h1 : Len(h1[k]) = Len(h2[k])
          /\ dbg = [h |-> <<h1, h2>>, todo |-> <<{}, {}>>, log |-> << <<>>, <<>> >>,
                    pc |-> <<"start", "start">>]

NextLog ==
    \/ \E i \in 1..2 : LogHeadersEnter(i)
    \/ \E i \in 1..2 : LogHeadersRange(i)

SpecLog == InitLog /\ [][NextLog]_vars

\* ===================================================== functions by themselves
\* The status codes and errors a RetryIf may be called with.
StatusCodes == 100..599
Errors == {"nil", "net", "ctx", "blocked"}

\* ---------------------------------------------------------------- buildURL
\* Index of the first occurrence of character c in str, 0 if there is none.
IndexOf(str, c) ==
    IF \E n \in 1..Len(str) : str[n] = c
    THEN CHOOSE n \in 1..Len(str) : str[n] = c /\ \A m \in 1..(n - 1) : str[m] # c
    ELSE 0

\* strings.Split(str, sep) for a one-character separator.
RECURSIVE Split(_, _)
Split(str, sep) ==
    LET n == IndexOf(str, sep) IN
    IF n = 0 THEN <<str>>
    ELSE <<SubSeq(str, 1, n - 1)>> \o Split(SubSeq(str, n + 1, Len(str)), sep)

\* A "%" that is not followed by two hexadecimal digits: url.unescape fails.
HexDigits == {"0", "2"}
BadEscape(str) ==
    \E n \in 1..Len(str) :
        /\ str[n] = "%"
        /\ ~(n + 2 <= Len(str) /\ str[n + 1] \in HexDigits /\ str[n + 2] \in HexDigits)

\* url.Parse(fullURL): the part before "?" and RawQuery, or an error: a missing
\* scheme before ":", or a bad escape in the path.
Parse(fullURL) ==
    LET q == IndexOf(fullURL, "?")
        rest == IF q = 0 THEN fullURL ELSE SubSeq(fullURL, 1, q - 1)
        rawQuery == IF q = 0 THEN <<>> ELSE SubSeq(fullURL, q + 1, Len(fullURL))
    IN  IF rest # <<>> /\ rest[1] = ":"
        THEN [err |-> "missing protocol scheme", rest |-> <<>>, RawQuery |-> <<>>]
        ELSE IF BadEscape(rest)
        THEN [err |-> "invalid URL escape", rest |-> <<>>, RawQuery |-> <<>>]
        ELSE [err |-> "nil", rest |-> rest, RawQuery |-> rawQuery]

\* The byte an escape "%xy" stands for, and the escape of a byte that
\* shouldEscape names; a space is written "+" in a query.
Unhex(x, y) ==
    IF x = "2" /\ y = "0" THEN " "
    ELSE IF x = "2" /\ y = "2" THEN "\""
    ELSE IF x = "0" /\ y = "2" THEN "STX"
    ELSE "NUL"
RECURSIVE QueryUnescape(_)
QueryUnescape(str) ==
    IF str = <<>> THEN <<>>
    ELSE IF Head(str) = "%"
    THEN <<Unhex(str[2], str[3])>> \o QueryUnescape(SubSeq(str, 4, Len(str)))
    ELSE IF Head(str) = "+" THEN <<" ">> \o QueryUnescape(Tail(str))
    ELSE <<Head(str)>> \o QueryUnescape(Tail(str))
RECURSIVE QueryEscape(_)
QueryEscape(str) ==
    IF str = <<>> THEN <<>>
    ELSE (CASE Head(str) = " " -> <<"+">>
            [] Head(str) = "\"" -> <<"%", "2", "2">>
            [] Head(str) = "STX" -> <<"%", "0", "2">>
            [] Head(str) = "NUL" -> <<"%", "0", "0">>
            [] OTHER -> <<Head(str)>>) \o QueryEscape(Tail(str))

\* One "key=value" piece of a query as a pair, not yet unescaped.
PairOf(piece) ==
    LET n == IndexOf(piece, "=") IN
    IF n = 0 THEN [key |-> piece, value |-> <<>>]
    ELSE [key |-> SubSeq(piece, 1, n - 1), value |-> SubSeq(piece, n + 1, Len(piece))]

\* parsedUrl.Query(): url.ParseQuery(RawQuery) with its error dropped.  Empty
\* pieces are skipped, and so is every pair whose key or value does not
\* unescape.  The result lists the pairs in the order of the query.
RECURSIVE ParsePieces(_)
ParsePieces(pieces) ==
    IF pieces = <<>> THEN <<>>
    ELSE LET pair == PairOf(Head(pieces)) IN
         IF Head(pieces) = <<>> \/ BadEscape(pair.key) \/ BadEscape(pair.value)
         THEN ParsePieces(Tail(pieces))
         ELSE <<[key |-> QueryUnescape(pair.key), value |-> QueryUnescape(pair.value)]>>
                 \o ParsePieces(Tail(pieces))
Query(rawQuery) == ParsePieces(Split(rawQuery, "&"))

\* currentQuery.Add(key, value)
Add(values, key, value) == values \o <<[key |-> key, value |-> value]>>

\* The loops of buildURL over rb.query, a list of keys each with its values.
RECURSIVE AddValues(_, _, _)
AddValues(values, key, vs) ==
    IF vs = <<>> THEN values
    ELSE AddValues(Add(values, key, Head(vs)), key, Tail(vs))
RECURSIVE AddAll(_, _)
AddAll(values, rbQuery) ==
    IF rbQuery = <<>> THEN values
    ELSE AddAll(AddValues(values, Head(rbQuery).key, Head(rbQuery).values), Tail(rbQuery))

\* url.Values.Encode(): "key=value" joined by "&", the keys sorted, the values
\* of a key in their order.  Keys here are told apart by their first character.
KeyOrder == <<"a", "n", "z">>
RECURSIVE JoinPairs(_)
JoinPairs(pairs) ==
    IF pairs = <<>> THEN <<>>
    ELSE QueryEscape(Head(pairs).key) \o <<"=">> \o QueryEscape(Head(pairs).value)
            \o (IF Len(pairs) > 1 THEN <<"&">> ELSE <<>>) \o JoinPairs(Tail(pairs))
RECURSIVE SortedFrom(_, _)
SortedFrom(values, rank) ==
    IF rank > Len(KeyOrder) THEN <<>>
    ELSE SelectSeq(values, LAMBDA pair : pair.key # <<>> /\ pair.key[1] = KeyOrder[rank])
            \o SortedFrom(values, rank + 1)
Encode(values) == JoinPairs(SortedFrom(values, 1))

\* RequestBuilder.buildURL, on rb.client.baseURL, rb.url and rb.query
buildURL(clientBaseURL, rbURL, rbQuery) ==
    LET fullURL == resolveURL(clientBaseURL, rbURL)
        parsedUrl == Parse(fullURL)
    IN  IF Len(rbQuery) > 0
        THEN IF parsedUrl.err # "nil" THEN fullURL
             ELSE parsedUrl.rest \o <<"?">>
                     \o Encode(AddAll(Query(parsedUrl.RawQuery), rbQuery))
        ELSE fullURL

\* The URLs and builder queries buildURL is tried on.
BuildURLs ==
    {<<"/", "u">>,
     <<"/", "u", "?", "a", "=", "1">>,
     <<"/", "u", "?", "n", "=", "1", "&", "a", "=", "2">>,
     <<"/", "u", "?", "a", "=", "%", "z", "z">>,
     <<"/", "u", "?", "a", "=", "%", "2", "0">>,
     <<"/", "%", "z", "z", "?", "a", "=", "1">>,
     <<":", "/", "/", "x", "?", "a", "=", "1">>,
     Http \o <<"c", "/", "u", "?", "z", "=", "1">>}
BuildQueries ==
    {<<>>,
     << [key |-> <<"n">>, values |-> << <<"1">> >>] >>,
     << [key |-> <<"a">>, values |-> << <<"2">> >>] >>,
     << [key |-> <<"n">>, values |-> << <<"1">>, <<" ">> >>] >>,
     << [key |-> <<"z">>, values |-> << <<"1">> >>], [key |-> <<"a">>, values |-> << <<"1">> >>] >>}

\* ------------------------------------------- DebugTransport and the bodies
\* t.MaxBodySize: what NewDebugTransport sets, or a small limit assigned to the
\* exported field, so that bodies longer than the limit can be written out.
DebugLimits == {2, MaxBodySize}
DebugBodies == {<<>>, <<1>>, <<1, 2>>, <<1, 2, 3>>}

\* The Body a message is left with by the logging of DebugTransport.RoundTrip:
\* a buffer of what io.ReadAll(io.LimitReader(Body, t.MaxBodySize)) returned.
\* With Debug off the Body is not touched.
LoggedBody(debug, maxBodySize, body) ==
    IF debug THEN Unread(NewStream(LimitRead(NewStream(body), maxBodySize)))
    ELSE Unread(NewStream(body))

\* DebugTransport.RoundTrip around an inner transport that answers with a body:
\* the bytes the inner transport can read from req.Body, and the bytes the
\* caller can read from the Body of the response that is returned.
DebugTransportRoundTrip(debug, maxBodySize, reqBody, respBody) ==
    [inner  |-> LoggedBody(debug, maxBodySize, reqBody),
     caller |-> LoggedBody(debug, maxBodySize, respBody)]

\* The base URLs and request URLs resolveURL is tried on.
ResolveBaseURLs ==
    {<<>>, <<" ">>, Http \o <<"a", "b">>, Http \o <<"a", "b", "/">>,
     <<" ">> \o Https \o <<"a", "b", "/", " ">>, Http \o <<"a", "b", "/", "/">>}
ResolveRequestURLs ==
    {<<>>, <<"/", "p">>, <<"p">>, <<" ", "/", "p", " ">>, <<" ", "p">>,
     Http \o <<"c", "/", "p">>, Https \o <<"c">>, Https \o <<"c", " ">>,
     <<" ">> \o Http \o <<"c">>, <<"h", "t", "t", "p">>}

\* A call of defaultRetryCondition(resp, err) or of resolveURL is about to be
\* made.
InitPure ==
    /\ ChainIdle
    /\ RespIdle
    /\ ConcIdle
    /\ LogIdle
    /\ TimeIdle
    /\ BuildIdle
    /\ \/ \E status \in StatusCodes, err \in Errors :
             fn = [name |-> "defaultRetryCondition", args |-> <<status, err>>, ret |-> <<>>]
       \/ \E baseURL \in ResolveBaseURLs, url \in ResolveRequestURLs :
             fn = [name |-> "resolveURL", args |-> <<baseURL, url>>, ret |-> <<>>]
       \/ \E baseURL \in {<<>>, Http \o <<"a", "b">>}, url \in BuildURLs,
              query \in BuildQueries :
             fn = [name |-> "buildURL", args |-> <<baseURL, url, query>>, ret |-> <<>>]
       \/ \E debug \in BOOLEAN, maxBodySize \in DebugLimits,
              reqBody \in DebugBodies, respBody \in DebugBodies :
             fn = [name |-> "DebugTransport.RoundTrip",
                   args |-> <<debug, maxBodySize, reqBody, respBody>>, ret |-> <<>>]

\* rb.resolveURL() returns.
CallResolveURL ==
    /\ fn.name = "resolveURL"
    /\ fn.ret = <<>>
    /\ fn' = [fn EXCEPT !.ret = <<resolveURL(fn.args[1], fn.args[2])>>]
    /\ UNCHANGED <<chainVars, respVars, concVars, logVars, timeVars, buildVars>>

\* The call returns.
CallDefaultRetryCondition ==
    /\ fn.name = "defaultRetryCondition"
    /\ fn.ret = <<>>
    /\ fn' = [fn EXCEPT !.ret = <<defaultRetryCondition(fn.args[1], fn.args[2])>>]
    /\ UNCHANGED <<chainVars, respVars, concVars, logVars, timeVars, buildVars>>

\* rb.buildURL() returns.
CallBuildURL ==
    /\ fn.name = "buildURL"
    /\ fn.ret = <<>>
    /\ fn' = [fn EXCEPT !.ret = <<buildURL(fn.args[1], fn.args[2], fn.args[3])>>]
    /\ UNCHANGED <<chainVars, respVars, concVars, logVars, timeVars, buildVars>>

\* t.RoundTrip(req) returns the response of the inner transport.
CallDebugRoundTrip ==
    /\ fn.name = "DebugTransport.RoundTrip"
    /\ fn.ret = <<>>
    /\ fn' = [fn EXCEPT !.ret = <<DebugTransportRoundTrip(fn.args[1], fn.args[2],
                                                          fn.args[3], fn.args[4])>>]
    /\ UNCHANGED <<chainVars, respVars, concVars, logVars, timeVars, buildVars>>

NextPure ==
    \/ CallDefaultRetryCondition
    \/ CallResolveURL
    \/ CallBuildURL
    \/ CallDebugRoundTrip

SpecPure == InitPure /\ [][NextPure]_vars

\* ==================================================== a request with timeouts
\* Durations in seconds.  0 is "no timeout" for http.Client.Timeout and for
\* rb.timeout; a deadline of 0 is no deadline.
Durations == 0..(MaxTime - 1)

\* NewClient(WithTimeout(clientTimeout)) returned, the builder was given
\* Timeout(timeout), and the server will take latency seconds to answer.
InitTime ==
    /\ ChainIdle
    /\ RespIdle
    /\ ConcIdle
    /\ LogIdle
    /\ PureIdle
    /\ BuildIdle
    /\ \E clientTimeout \in Durations, timeout \in Durations, latency \in 1..MaxTime :
          tmo = [pc |-> "built", now |-> 0, clientTimeout |-> clientTimeout,
                 timeout |-> timeout, latency |-> latency,
                 ctxDeadline |-> 0, clientDeadline |-> 0, cause |-> "none",
                 ctx |-> "none", bodyErr |-> "none"]

\* RequestBuilder.Do: context.WithTimeout(rb.ctx, rb.timeout) if rb.timeout > 0,
\* then doRequest: httpClient.Do sets its own deadline from httpClient.Timeout.
TimedDo ==
    /\ tmo.pc = "built"
    /\ tmo' = [tmo EXCEPT
                 !.pc = "sent",
                 !.ctx = IF tmo.timeout > 0 THEN "live" ELSE "none",
                 !.ctxDeadline = IF tmo.timeout > 0 THEN tmo.now + tmo.timeout ELSE 0,
                 !.clientDeadline = IF tmo.clientTimeout > 0
                                    THEN tmo.now + tmo.clientTimeout ELSE 0]
    /\ UNCHANGED <<chainVars, respVars, concVars, logVars, pureVars, buildVars>>

\* Something is due now: the answer or a deadline.
Due ==
    \/ tmo.now = tmo.latency
    \/ tmo.ctxDeadline > 0 /\ tmo.now = tmo.ctxDeadline
    \/ tmo.clientDeadline > 0 /\ tmo.now = tmo.clientDeadline

\* A second passes while the request is in flight.
Tick ==
    /\ tmo.pc = "sent"
    /\ ~Due
    /\ tmo.now < MaxTime
    /\ tmo' = [tmo EXCEPT !.now = @ + 1]
    /\ UNCHANGED <<chainVars, respVars, concVars, logVars, pureVars, buildVars>>

\* defer cancel(), run as Do returns: the context made by Do, if any, is cancelled.
DeferredCancel(c) == IF c = "live" THEN "cancelled" ELSE c

\* The server's answer (status and headers) arrives, doRequest returns the
\* Response with its Body unread, and Do returns it.
Answer ==
    /\ tmo.pc = "sent"
    /\ tmo.now = tmo.latency
    /\ tmo' = [tmo EXCEPT !.pc = "answered", !.ctx = DeferredCancel(tmo.ctx)]
    /\ UNCHANGED <<chainVars, respVars, concVars, logVars, pureVars, buildVars>>

\* The context made by Do reaches its deadline: the request is cancelled.
CtxDeadline ==
    /\ tmo.pc = "sent"
    /\ tmo.ctxDeadline > 0
    /\ tmo.now = tmo.ctxDeadline
    /\ tmo' = [tmo EXCEPT !.pc = "cut", !.cause = "context deadline exceeded",
                          !.ctx = "cancelled"]
    /\ UNCHANGED <<chainVars, respVars, concVars, logVars, pureVars, buildVars>>

\* http.Client's own timer, set from httpClient.Timeout, cancels the request.
ClientDeadline ==
    /\ tmo.pc = "sent"
    /\ tmo.clientDeadline > 0
    /\ tmo.now = tmo.clientDeadline
    /\ tmo' = [tmo EXCEPT !.pc = "cut", !.cause = "Client.Timeout exceeded",
                          !.ctx = DeferredCancel(tmo.ctx)]
    /\ UNCHANGED <<chainVars, respVars, concVars, logVars, pureVars, buildVars>>

\* The caller reads the Body of the Response Do returned, at once.  The
\* transport is still receiving it under the request's context: if that context
\* is cancelled the connection is being torn down, and the read gets what was
\* buffered already or fails with the context's error.
ReadBody ==
    /\ tmo.pc = "answered"
    /\ \E e \in IF tmo.ctx = "cancelled" THEN {"nil", "context canceled"} ELSE {"nil"} :
          tmo' = [tmo EXCEPT !.pc = "read", !.bodyErr = e]
    /\ UNCHANGED <<chainVars, respVars, concVars, logVars, pureVars, buildVars>>

NextTime ==
    \/ TimedDo
    \/ Tick
    \/ Answer
    \/ ReadBody
    \/ CtxDeadline
    \/ ClientDeadline

SpecTime == InitTime /\ [][NextTime]_vars

\* ============================================ retry with any MaxRetries
\* RetryConfig.MaxRetries is an int: WithRetry takes the config as it is given,
\* a negative count included.
RetryCounts == {-1, 0, 1}
AnyRetryConfigs == [MaxRetries : RetryCounts, Backoff : Backoffs, RetryIf : RetryIfs]

\* NewClient(WithRetry(config)) returned and one request was built for it.
InitRetry ==
    /\ RespIdle
    /\ ConcIdle
    /\ AuxIdle
    /\ \E config \in AnyRetryConfigs : opts = <<WithRetry(config)>>
    /\ client = NewClient(opts)
    /\ phase = "ready"
    /\ ctx = "live"
    /\ \E host \in Hosts, hasBody \in BOOLEAN :
          /\ reqs = << [host |-> host, auth |-> "none", body |-> IF hasBody THEN 1 ELSE 0] >>
          /\ streams = IF hasBody THEN << NewStream(<<1, 2>>) >> ELSE <<>>
    /\ stack = <<>>
    /\ result = [resp |-> NilResp, err |-> "nil"]
    /\ baseCalls = 0
    /\ issued = 1

NextRetry ==
    \/ ClientDo
    \/ RetryEnter
    \/ RetryAttempt
    \/ BaseRoundTrip
    \/ RetryAfter
    \/ RetrySleepDone
    \/ ClientDoReturn

SpecRetry == InitRetry /\ [][NextRetry]_vars

\* ===================================== requests while another one sleeps
\* The Client of this part has WithRetry with MaxRetries 1 and a Backoff > 0.
SleepMaxRetries == 1

\* retryTransport.RoundTrip of goroutine g: the server answered 503, this is not
\* the last attempt, and time.Sleep begins.
Backoff(g) ==
    /\ gs[g].pc = "wait"
    /\ gs[g].attempt < SleepMaxRetries
    /\ gs' = [gs EXCEPT ![g].pc = "sleep", ![g].attempt = @ + 1]
    /\ UNCHANGED <<chainVars, respVars, auxVars, mu, headers, setter>>

\* time.Sleep returns and the next attempt goes to the inner transport.
Wake(g) ==
    /\ gs[g].pc = "sleep"
    /\ gs' = [gs EXCEPT ![g].pc = "wait"]
    /\ UNCHANGED <<chainVars, respVars, auxVars, mu, headers, setter>>

\* What goroutine g can do next.
Step(g) ==
    \/ Get(g)
    \/ ApplyLock(g)
    \/ ApplyRange(g)
    \/ ApplyUnlock(g)
    \/ doRequest(g)
    \/ Backoff(g)
    \/ Wake(g)
    \/ Serve(g)

InitSleep ==
    /\ ChainIdle
    /\ RespIdle
    /\ AuxIdle
    /\ mu = 0
    /\ headers \in ClientHeaderMaps
    /\ gs = [g \in Goroutines |-> NewGoroutine]
    /\ setter = [pc |-> "done", m |-> NoMap, todo |-> {}]

NextSleep ==
    \/ \E g \in Goroutines : Get(g)
    \/ \E g \in Goroutines : ApplyLock(g)
    \/ \E g \in Goroutines : ApplyRange(g)
    \/ \E g \in Goroutines : ApplyUnlock(g)
    \/ \E g \in Goroutines : doRequest(g)
    \/ \E g \in Goroutines : Backoff(g)
    \/ \E g \in Goroutines : Wake(g)
    \/ \E g \in Goroutines : Serve(g)

SpecSleep == InitSleep /\ [][NextSleep]_vars

\* ============================================ the header and auth wrappers
\* An interceptor that installs a headerTransport with the given headers.
WithHeaderTransport(hs) ==
    [kind |-> "headerTransport", config |-> NoConfig, blockedList |-> <<>>, headers |-> hs]

\* t.headers: maps with an entry or two.
TransportHeaders ==
    {[k \in {"X-App"} |-> "1"],
     [k \in {"Authorization"} |-> "Custom"],
     [k \in {"x-app", "Accept"} |-> IF k = "Accept" THEN "json" ELSE "2"]}

WrapOptions ==
    {WithAuthorization, WithBaseAuth} \cup {WithHeaderTransport(hs) : hs \in TransportHeaders}

\* The loop of headerTransport.RoundTrip: req.Header.Set(key, value) for each
\* entry of t.headers, on request record q.
RECURSIVE SetAll(_, _, _)
SetAll(q, hs, keys) ==
    IF keys = {} THEN q
    ELSE LET key == CHOOSE k \in keys : TRUE
             set == IF key = "Authorization" THEN [q EXCEPT !.auth = hs[key]]
                    ELSE [q EXCEPT !.header = HeaderSet(@, key, hs[key])]
         IN  SetAll(set, hs, keys \ {key})

\* NewClient(opts...) returned and a request with headers of its own was built.
InitWrap ==
    /\ RespIdle
    /\ ConcIdle
    /\ AuxIdle
    /\ opts \in SeqsUpTo(WrapOptions, MaxOpts)
    /\ client = NewClient(opts)
    /\ phase = "ready"
    /\ ctx = "live"
    /\ \E auth \in {"none", "Own"}, app \in {"", "0"} :
          reqs = << [host |-> <<"c">>, auth |-> auth, body |-> 0,
                     header |-> HeaderSet(NoHeader, "X-App", app)] >>
    /\ streams = <<>>
    /\ stack = <<>>
    /\ result = [resp |-> NilResp, err |-> "nil"]
    /\ baseCalls = 0
    /\ issued = 1

\* headerTransport.RoundTrip
HeaderRoundTrip ==
    /\ Depth >= 1 /\ ~IsBase(Top) /\ KindOf(Top) = "headerTransport" /\ Top.pc = "enter"
    /\ LET hs == client.transport[Top.layer].headers IN
       reqs' = Append(reqs, SetAll(Clone(Top.req), hs, DOMAIN hs))
    /\ stack' = CallInner(Top, Len(reqs) + 1)
    /\ UNCHANGED <<respVars, concVars, auxVars, issued, opts, client, phase, ctx, streams, result, baseCalls>>

NextWrap ==
    \/ ClientDo
    \/ HeaderRoundTrip
    \/ AuthRoundTrip
    \/ BaseAuthRoundTrip
    \/ BaseRoundTrip
    \/ WrapperReturn
    \/ ClientDoReturn

SpecWrap == InitWrap /\ [][NextWrap]_vars

\* ============================================================ the builder
\* The values handed to JSON() and XML(): a struct, a map[string]string, a chan.
MaxBuilderCalls == 3
Values == {"struct", "map", "chan"}

\* json.Marshal(v) and xml.Marshal(v): data and err.  encoding/json does not
\* take a channel; encoding/xml takes neither a channel nor a map.
jsonMarshal(v) ==
    IF v = "chan" THEN [data |-> <<>>, err |-> "json: unsupported type"]
    ELSE [data |-> <<"{", v, "}">>, err |-> "nil"]
xmlMarshal(v) ==
    IF v \in {"chan", "map"} THEN [data |-> <<>>, err |-> "xml: unsupported type"]
    ELSE [data |-> <<"<", v, ">">>, err |-> "nil"]

\* A variant that records what the last marshalling returned, nil included.
SetErr_LastWins(b, err) == [b EXCEPT !.err = err]

\* if err != nil { rb.err = err }
SetErr(b, err) == IF err # "nil" THEN [b EXCEPT !.err = err] ELSE b

\* RequestBuilder.JSON and RequestBuilder.XML on builder b
JSON(b, v) ==
    LET m == jsonMarshal(v) IN
    [SetErr(b, m.err) EXCEPT !.body = m.data, !.contentType = "application/json"]
XML(b, v) ==
    LET m == xmlMarshal(v) IN
    [SetErr(b, m.err) EXCEPT !.body = m.data, !.contentType = "application/xml"]

\* client.NewRequest() returned.
InitBuild ==
    /\ ChainIdle
    /\ RespIdle
    /\ ConcIdle
    /\ LogIdle
    /\ PureIdle
    /\ TimeIdle
    /\ rb = [pc |-> "building", err |-> "nil", body |-> "nil", contentType |-> "",
             calls |-> <<>>, sent |-> 0, ret |-> "none"]

Building == rb.pc = "building" /\ Len(rb.calls) < MaxBuilderCalls

\* rb.JSON(v)
CallJSON ==
    /\ Building
    /\ \E v \in Values :
          rb' = [JSON(rb, v) EXCEPT !.calls = Append(rb.calls, [op |-> "JSON", v |-> v])]
    /\ UNCHANGED <<chainVars, respVars, concVars, logVars, pureVars, timeVars>>

\* rb.XML(v)
CallXML ==
    /\ Building
    /\ \E v \in Values :
          rb' = [XML(rb, v) EXCEPT !.calls = Append(rb.calls, [op |-> "XML", v |-> v])]
    /\ UNCHANGED <<chainVars, respVars, concVars, logVars, pureVars, timeVars>>

\* rb.Body(body)
CallBody ==
    /\ Building
    /\ rb' = [rb EXCEPT !.body = <<"r", "a", "w">>,
                        !.calls = Append(rb.calls, [op |-> "Body", v |-> "reader"])]
    /\ UNCHANGED <<chainVars, respVars, concVars, logVars, pureVars, timeVars>>

\* rb.Header("Content-Type", "text/plain")
CallHeader ==
    /\ Building
    /\ rb' = [rb EXCEPT !.contentType = "text/plain",
                        !.calls = Append(rb.calls, [op |-> "Header", v |-> "text/plain"])]
    /\ UNCHANGED <<chainVars, respVars, concVars, logVars, pureVars, timeVars>>

\* rb.Do(): rb.err is returned before anything is built; otherwise the request
\* goes into the transport chain, which answers or fails.
BuilderDo ==
    /\ rb.pc = "building"
    /\ \/ /\ rb.err # "nil"
          /\ rb' = [rb EXCEPT !.pc = "done", !.ret = rb.err]
       \/ /\ rb.err = "nil"
          /\ \E answer \in {"nil", "transport error"} :
                rb' = [rb EXCEPT !.pc = "done", !.sent = rb.sent + 1, !.ret = answer]
    /\ UNCHANGED <<chainVars, respVars, concVars, logVars, pureVars, timeVars>>

NextBuild ==
    \/ CallJSON
    \/ CallXML
    \/ CallBody
    \/ CallHeader
    \/ BuilderDo

SpecBuild == InitBuild /\ [][NextBuild]_vars

\* ================================================================= claims
RetryFrames == {i \in 1..Depth : KindOf(stack[i]) = "retry"}
IsDefault(f) == ConfigOf(f).RetryIf = "default"

RECURSIVE Sum(_)
Sum(q) == IF q = <<>> THEN 0 ELSE Head(q) + Sum(Tail(q))

\* 1 + 2 + ... + n
Triangle(n) == (n * (n + 1)) \div 2

\* Some blocked substring occurs somewhere in the host.
HostHasBlocked(blockedList, host) ==
    \E i \in 1..Len(blockedList), a \in 1..(Len(host) + 1), b \in 0..Len(host) :
        SubSeq(host, a, b) = blockedList[i]

\* A blocklist wrapper at a layer after `layer` refuses the request's host.
BlockedInside(layer) ==
    \E j \in (layer + 1)..NLayers :
        /\ client.transport[j].kind = "blockList"
        /\ HostHasBlocked(client.transport[j].blockedList, reqs[1].host)

\* C1: with MaxRetries = K and the default retry condition, a RoundTrip of the
\* retry wrapper whose every attempt had a retryable outcome (error, status >=
\* 500, or 429) has called its inner transport exactly K + 1 times when it
\* returns; unless a blocklist wrapper inside it refused the request, these are
\* K + 1 requests to the base transport.
C1_RetryBound ==
    \A i \in RetryFrames :
        LET f == stack[i] IN
        (f.pc = "done" /\ IsDefault(f) /\ f.allRetry) =>
            /\ f.calls = ConfigOf(f).MaxRetries + 1
            /\ ~BlockedInside(i) => baseCalls = ConfigOf(f).MaxRetries + 1

C1_Witness ==
    \E i \in RetryFrames :
        /\ stack[i].pc = "done" /\ IsDefault(stack[i]) /\ stack[i].allRetry
        /\ ConfigOf(stack[i]).MaxRetries = MaxRetriesBound
        /\ baseCalls = MaxRetriesBound + 1
        /\ ctx = "live"

\* C2: the retry wrapper never calls its inner transport after an attempt whose
\* outcome the retry predicate rejected; with the default condition, a 404 on
\* the first attempt leaves exactly one inner call, whatever MaxRetries is.
C2_StopsAtRejection ==
    \A i \in RetryFrames :
        LET f == stack[i] IN
        /\ ~f.afterRej
        /\ (IsDefault(f) /\ f.first404) => f.calls = 1 /\ f.pc = "done"

C2_Witness ==
    \E i \in RetryFrames :
        /\ stack[i].pc = "done" /\ IsDefault(stack[i])
        /\ ConfigOf(stack[i]).MaxRetries = MaxRetriesBound
        /\ stack[i].first404
        /\ stack[i].resp.status = 404
        /\ stack[i].calls = 1 /\ baseCalls = 1

\* C3: when the retry wrapper returns, it returns the response and the error of
\* its last inner call: a non-nil response is the latest one the base transport
\* produced, and the error is that call's error, never one of its own.  If every
\* attempt answered 500 the caller gets a 500 response and a nil error.
C3_ReturnsLastOutcome ==
    \A i \in RetryFrames :
        LET f == stack[i] IN
        f.pc = "done" =>
            /\ f.calls >= 1
            /\ f.resp = f.last.resp
            /\ f.err = f.last.err
            /\ f.resp # NilResp => f.resp.id = baseCalls
            /\ (f.resp = NilResp) = (f.err # "nil")

C3_Witness ==
    \E i \in RetryFrames :
        /\ stack[i].pc = "done"
        /\ stack[i].calls = MaxRetriesBound + 1
        /\ ~stack[i].allRetry
        /\ stack[i].resp.status = 200 /\ stack[i].err = "nil"
        /\ stack[i].resp.id = MaxRetriesBound + 1

\* C4: the sleep that follows attempt i (from 0) lasts Backoff * (i + 1); no
\* sleep follows the attempt RoundTrip returns from; with MaxRetries = K and
\* every attempt retryable the sleeps total Backoff * (1 + ... + K).
C4_BackoffSchedule ==
    \A i \in RetryFrames :
        LET f == stack[i]
            config == ConfigOf(f)
        IN
        /\ \A k \in 1..Len(f.sleeps) : f.sleeps[k] = config.Backoff * k
        /\ f.pc = "sleep" => f.sleepFor = config.Backoff * (f.attempt + 1)
                             /\ Len(f.sleeps) = f.calls
        /\ f.pc = "done" => Len(f.sleeps) = f.calls - 1
        /\ (f.pc = "done" /\ IsDefault(f) /\ f.allRetry) =>
              Sum(f.sleeps) = config.Backoff * Triangle(config.MaxRetries)

C4_Witness ==
    \E i \in RetryFrames :
        /\ stack[i].pc = "done" /\ IsDefault(stack[i]) /\ stack[i].allRetry
        /\ ConfigOf(stack[i]).MaxRetries = MaxRetriesBound
        /\ ConfigOf(stack[i]).Backoff > 0
        /\ Len(stack[i].sleeps) = MaxRetriesBound
        /\ Sum(stack[i].sleeps) > 0

C6_CancelStopsRetry ==
    [][ctx = "cancelled" =>
          \A i \in RetryFrames :
              (i <= Len(stack') /\ stack'[i].layer = stack[i].layer) =>
                  /\ stack'[i].calls = stack[i].calls
                  /\ Len(stack'[i].sleeps) = Len(stack[i].sleeps)
                  /\ ~(stack[i].pc = "sleep" /\ stack'[i].pc = "loop")]_vars

\* C7: a blocklist wrapper given a request whose host contains one of its
\* blocked substrings never calls its inner transport and returns a nil
\* response with its error; with such a wrapper anywhere in the chain the base
\* transport is never reached.
C7_BlockedNeverReachesBase ==
    /\ \A i \in 1..Depth :
          (KindOf(stack[i]) = "blockList"
             /\ HostHasBlocked(client.transport[i].blockedList, reqs[stack[i].req].host)) =>
                /\ stack[i].calls = 0
                /\ Depth = i
                /\ stack[i].pc = "done" => stack[i].resp = NilResp /\ stack[i].err = "blocked"
    /\ BlockedInside(0) =>
          /\ baseCalls = 0
          /\ \A i \in 1..Depth : ~IsBase(stack[i])
          /\ phase = "done" => result.resp = NilResp /\ result.err = "blocked"

C7_Witness ==
    /\ phase = "done"
    /\ NLayers = MaxOpts
    /\ client.transport[NLayers].kind = "blockList"
    /\ client.transport[1].kind = "retry"
    /\ ConfigOf([layer |-> 1]).MaxRetries = MaxRetriesBound
    /\ IsDefault([layer |-> 1])
    /\ result.err = "blocked"
    /\ baseCalls = 0

\* C8: the wrapper added i-th is the (n - i + 1)-th to receive the request, so
\* when the base transport runs, the wrappers stand on the call stack in the
\* reverse of the order their options were given; calls go one wrapper inward
\* and returns one wrapper outward, the result passing to the wrapper added next.
C8_Order ==
    \A i \in 1..Depth :
        /\ stack[i].layer = i
        /\ i <= Len(opts)
        => /\ ~IsBase(stack[i])
           /\ client.transport[i] = opts[Len(opts) - i + 1]

C8_Steps ==
    /\ Len(stack') > Depth => /\ Len(stack') = Depth + 1
                              /\ stack'[Depth + 1].layer = Depth + 1
    /\ Len(stack') < Depth => /\ Len(stack') = Depth - 1
                              /\ Top.pc = "done"
                              /\ Depth > 1 => /\ stack'[Depth - 1].layer = Top.layer - 1
                                              /\ stack'[Depth - 1].resp = Top.resp
                                              /\ stack'[Depth - 1].err = Top.err
                                              /\ stack[Depth - 1].pc = "wait"

C9_ReadOnceCached ==
    hist.ok =>
        /\ out.bytes = hist.okBytes
        /\ out.err \in {"nil", "parse error"}
        /\ r.cached /\ r.body = hist.okBytes
        /\ hist.reads = 1
        /\ hist.decodes = IF isGzipEncoded(r.encoding) THEN 1 ELSE 0

\* What goroutine g's request must carry under the canonical name c: the value
\* the request itself set, else a value client.headers held for that name when
\* g had the mutex, else what setDefaultHeaders fills in.
C10_Carries(g, c) ==
    LET f == gs[g]
        own == {k \in DOMAIN f.rb : CanonicalKey(k) = c}
        dflt == {k \in DOMAIN f.seen : CanonicalKey(k) = c}
    IN  IF own # {} THEN f.req[c] \in {f.rb[k] : k \in own}
        ELSE IF dflt # {} THEN f.req[c] \in {f.seen[k] : k \in dflt}
        ELSE f.req[c] = CASE c = "User-Agent" -> "go-httpc/1.0"
                          [] c = "Accept" -> "*/*"
                          [] c = "Accept-Encoding" -> "*"
                          [] OTHER -> ""

C10_Safe ==
    \A g \in DOMAIN gs :
        /\ ~gs[g].unlocked
        /\ gs[g].pc = "range" => mu = g
        /\ gs[g].pc \in {"wait", "done"} => \A c \in WireKeys : C10_Carries(g, c)
        /\ gs[g].pc = "done" => gs[g].resp = [to |-> g, status |-> 200]

C10_OwnStep ==
    \A g \in DOMAIN gs :
        gs'[g] # gs[g] => \A h \in DOMAIN gs \ {g} : gs'[h] = gs[h]

C10_AllDone == gs # <<>> /\ \A g \in DOMAIN gs : gs[g].pc = "done"

\* C10: however N concurrent requests through one Client interleave, each one
\* completes with the response to itself, having sent every client default
\* header (unless it set that header itself); a step of one request changes
\* nothing of another; client.headers is ranged over only with client.mu held.
C10_ConcurrentRequests == []C10_Safe /\ [][C10_OwnStep]_vars /\ <>C10_AllDone

\* Both requests are done, the setter ran in between them, so they carried
\* different default headers.
C10_Witness ==
    /\ C10_AllDone
    /\ setter.pc = "done"
    /\ \E g, h \in DOMAIN gs :
          /\ gs[g].seen # gs[h].seen
          /\ gs[g].req # gs[h].req
          /\ gs[g].rb # NoMap

C11_AsBuilt ==
    /\ client.transport = NewClient(opts).transport
    /\ client.baseURL = NewClient(opts).baseURL
    /\ client.httpTransport = client.transport
    /\ headers = ClientHeaders(opts)
    /\ \A i \in 1..Depth : stack[i].layer <= Len(client.httpTransport) + 1

C11_NoWrite == client' = client /\ headers' = headers /\ opts' = opts

\* C11: after NewClient, however many requests run, the Client's base URL,
\* headers map, transport chain and httpClient.Transport stay what the options
\* made them; every RoundTrip frame is a layer of that chain, and
\* httpClient.Transport is client.transport in every state.
C11_ClientFixed == []C11_AsBuilt /\ [][C11_NoWrite]_vars

\* A later request is inside a chain of two wrappers, on a client with a base
\* URL or default header set.
C11_Witness ==
    /\ issued = MaxIssued
    /\ phase = "running"
    /\ Depth = 2
    /\ client.baseURL # <<>>
    /\ Len(client.transport) = 1

\* The names of LoggedNames that contain authorization, api-key, x-api-key or
\* cookie when case is ignored.
C12_SensitiveNames == {H_Authorization, H_XApiKey, H_SetCookie, H_COOKIE}

C12_Count(log, line) == Cardinality({n \in 1..Len(log) : log[n] = line})

C12_Masked ==
    \A i \in 1..2 :
        /\ \A n \in 1..Len(dbg.log[i]) :
              dbg.log[i][n].key \in C12_SensitiveNames
                  => dbg.log[i][n].value = Placeholder
        /\ dbg.pc[i] = "done" =>
              \A k \in DOMAIN dbg.h[i] :
                 IF k \in C12_SensitiveNames
                 THEN C12_Count(dbg.log[i], HeaderLine(k, Placeholder)) = Len(dbg.h[i][k])
                 ELSE \A v \in {dbg.h[i][k][n] : n \in 1..Len(dbg.h[i][k])} :
                         C12_Count(dbg.log[i], HeaderLine(k, v)) = 1

C12_SameLines ==
    (/\ dbg.pc = <<"done", "done">>
     /\ \A k \in DOMAIN dbg.h[1] \ C12_SensitiveNames : dbg.h[1][k] = dbg.h[2][k])
        => \A line \in {dbg.log[1][n] : n \in 1..Len(dbg.log[1])}
                 \cup {dbg.log[2][n] : n \in 1..Len(dbg.log[2])} :
              C12_Count(dbg.log[1], line) = C12_Count(dbg.log[2], line)

\* C12: every line DebugTransport logs for a header whose name contains
\* authorization, api-key, x-api-key or cookie (in any case) shows the
\* placeholder, one line for each value, never the value; two header sets that
\* differ only in such values give the same log lines.
C12_SensitiveMasked == C12_Masked /\ C12_SameLines

\* Both logs are written, for header sets that differ in the values of
\* Authorization and agree on Accept.
C12_Witness ==
    /\ dbg.pc = <<"done", "done">>
    /\ DOMAIN dbg.h[1] = {H_Authorization, H_Accept}
    /\ dbg.h[1][H_Authorization] # dbg.h[2][H_Authorization]
    /\ dbg.h[1][H_Accept] = dbg.h[2][H_Accept]
    /\ Len(dbg.log[1]) = 3

\* C13: a retry wrapper whose RetryConfig has a nil RetryIf retries like one
\* with the default condition: if every attempt had a retryable outcome, it has
\* made MaxRetries + 1 inner calls when it returns.
C13_NilRetryIfIsDefault ==
    \A i \in RetryFrames :
        LET f == stack[i] IN
        (f.pc = "done" /\ ConfigOf(f).RetryIf = "nil" /\ f.allRetry) =>
            f.calls = ConfigOf(f).MaxRetries + 1

\* C14: defaultRetryCondition returns true exactly for a non-nil error, a status
\* of 500 or more, or status 429; with a nil error it returns false for every
\* other status.
C14_DefaultCondition ==
    (fn.name = "defaultRetryCondition" /\ fn.ret # <<>>) =>
        LET status == fn.args[1]
            err == fn.args[2]
        IN  /\ fn.ret[1] = (err # "nil" \/ status \in 500..599 \/ status = 429)
            /\ (err = "nil" /\ status \in (100..499) \ {429}) => fn.ret[1] = FALSE

\* The condition was asked about a 429 answer and returned true.
C14_Witness ==
    /\ fn.name = "defaultRetryCondition"
    /\ fn.args = <<429, "nil">>
    /\ fn.ret = <<TRUE>>

\* C15: a retry wrapper with the default condition, with a blocklist wrapper
\* inside it that refuses the request's host, calls inward once and never
\* sleeps; the blocklist error is not retried.
C15_BlockedNotRetried ==
    \A i \in RetryFrames :
        LET f == stack[i] IN
        (IsDefault(f) /\ BlockedInside(i)) => f.calls <= 1 /\ f.sleeps = <<>>

\* C16: interceptors run in the order they were added: the wrapper the i-th
\* RoundTrip frame runs is the one the i-th option installed.
C16_OrderAdded ==
    \A i \in 1..Depth : i <= Len(opts) => client.transport[stack[i].layer] = opts[i]

\* C17: a request built with Timeout(d), d > 0 and other than the client's
\* timeout, is bounded by d alone: if it is cut off, that happens d seconds
\* after it was sent, by its own context, and not when the client's timeout
\* elapses.
C17_RequestTimeoutOverrides ==
    (/\ tmo.pc = "cut" /\ tmo.timeout > 0 /\ tmo.timeout # tmo.clientTimeout
     /\ tmo.latency > tmo.now) =>
        /\ tmo.now = tmo.timeout
        /\ tmo.cause = "context deadline exceeded"

C18_ReadErrors == {"unexpected EOF", "read on closed body"}
C18_GzipErrors == {"gzip: invalid header", "gzip: invalid checksum"}

C18_NothingCached ==
    out.err \in C18_ReadErrors => ~r.cached /\ r.body = <<>> /\ out.bytes = <<>>

C18_ReadsAgain ==
    (out.err \in C18_ReadErrors /\ hist' # hist) => hist'.reads = hist.reads + 1

\* C18: when reading the Body fails, the accessor returns the read error with
\* no bytes and caches nothing, and the next call reads the Body again.
C18_ReadErrorNotCached == []C18_NothingCached /\ [][C18_ReadsAgain]_vars

\* A read failed part-way, and the call after it read the Body again.
C18_Witness ==
    /\ r.kind = "http" /\ r.failAt >= 1
    /\ hist.calls = 2 /\ hist.reads = 2
    /\ out.err \in C18_ReadErrors
    /\ ~r.cached

C20_GzipValues == {"gzip", "GZIP", "Gzip"}

\* C20: the first accessor call on a body that reads without error returns x if
\* the body is gzip(x) and Content-Encoding is gzip in any case, and the body
\* bytes unchanged for any other Content-Encoding.
C20_GzipRoundTrip ==
    (hist.calls = 1 /\ out.err \notin C18_ReadErrors) =>
        /\ r.encoding \in C20_GzipValues =>
              \A x \in Payloads : r.wire = Gzip(x) => out.bytes = x /\ r.body = x
        /\ r.encoding \notin C20_GzipValues =>
              out.bytes = r.wire /\ r.body = r.wire /\ hist.decodes = 0

\* Bytes() returned <<1, 2>> for its gzip form served as Content-Encoding: GZIP.
C20_Witness ==
    /\ hist.calls = 1
    /\ r.encoding = "GZIP"
    /\ r.wire = Gzip(<<1, 2>>)
    /\ out = [op |-> "Bytes", bytes |-> <<1, 2>>, err |-> "nil"]

\* str without the spaces at its two ends.
C21_Trimmed(str) ==
    IF \A n \in 1..Len(str) : str[n] = " " THEN <<>>
    ELSE LET i == CHOOSE a \in 1..Len(str) :
                     str[a] # " " /\ \A n \in 1..(a - 1) : str[n] = " "
             j == CHOOSE b \in 1..Len(str) :
                     str[b] # " " /\ \A n \in (b + 1)..Len(str) : str[n] = " "
         IN  SubSeq(str, i, j)

C21_StartsWithScheme(str) ==
    \/ Len(str) >= 7 /\ SubSeq(str, 1, 7) = <<"h", "t", "t", "p", ":", "/", "/">>
    \/ Len(str) >= 8 /\ SubSeq(str, 1, 8) = <<"h", "t", "t", "p", "s", ":", "/", "/">>

\* The base, trimmed, less one "/" at its end.
C21_Base(str) ==
    LET b == C21_Trimmed(str) IN
    IF b # <<>> /\ b[Len(b)] = "/" THEN SubSeq(b, 1, Len(b) - 1) ELSE b

\* C21 as stated: a request URL that starts with http:// or https:// comes back
\* as it is; otherwise, with a non-empty base, the result is the trimmed base
\* less one trailing slash, a slash if the trimmed path does not start with
\* one, and the trimmed path; with an empty base it is the trimmed path.
C21_ResolveAsStated ==
    (fn.name = "resolveURL" /\ fn.ret # <<>>) =>
        LET base == fn.args[1]
            url == fn.args[2]
            path == C21_Trimmed(url)
        IN  fn.ret[1] =
               IF C21_StartsWithScheme(url) THEN url
               ELSE IF C21_Trimmed(base) = <<>> THEN path
               ELSE IF path # <<>> /\ path[1] = "/" THEN C21_Base(base) \o path
               ELSE C21_Base(base) \o <<"/">> \o path

\* C21, amended: the request URL is trimmed first; if it then starts with
\* http:// or https:// it is the result; else with an empty trimmed base the
\* trimmed path is; else with an empty trimmed path the base less one trailing
\* slash is, with no slash added; else base, a slash if the path has none, path.
C21_Resolve ==
    (fn.name = "resolveURL" /\ fn.ret # <<>>) =>
        LET base == fn.args[1]
            path == C21_Trimmed(fn.args[2])
        IN  fn.ret[1] =
               IF C21_StartsWithScheme(path) THEN path
               ELSE IF C21_Trimmed(base) = <<>> THEN path
               ELSE IF path = <<>> THEN C21_Base(base)
               ELSE IF path[1] = "/" THEN C21_Base(base) \o path
               ELSE C21_Base(base) \o <<"/">> \o path

\* resolveURL joined a base with spaces and a trailing slash to a path without
\* a leading slash.
C21_Witness ==
    /\ fn.name = "resolveURL"
    /\ fn.args = << <<" ">> \o Https \o <<"a", "b", "/", " ">>, <<" ", "p">> >>
    /\ fn.ret = << Https \o <<"a", "b", "/", "p">> >>

\* The "key=value" pieces of the query of a URL, and of a builder's query.
C22_Pieces(urlStr) ==
    LET q == IndexOf(urlStr, "?") IN
    IF q = 0 THEN <<>>
    ELSE SelectSeq(Split(SubSeq(urlStr, q + 1, Len(urlStr)), "&"), LAMBDA piece : piece # <<>>)

RECURSIVE C22_BuilderPieces(_)
C22_BuilderPieces(rbQuery) ==
    IF rbQuery = <<>> THEN <<>>
    ELSE [n \in 1..Len(Head(rbQuery).values) |->
             Head(rbQuery).key \o <<"=">> \o Head(rbQuery).values[n]]
            \o C22_BuilderPieces(Tail(rbQuery))

\* A piece as the server reads it: unescaped, if it unescapes at all.
C22_Read(pieces) ==
    [n \in 1..Len(pieces) |->
        IF BadEscape(pieces[n]) THEN pieces[n] ELSE QueryUnescape(pieces[n])]

C22_Count(pieces, piece) == Cardinality({n \in 1..Len(pieces) : pieces[n] = piece})

\* The URLs of BuildURLs that url.Parse rejects.
C22_Unparsable(urlStr) ==
    \/ urlStr # <<>> /\ urlStr[1] = ":"
    \/ \E n \in 1..(Len(urlStr) - 1) :
          /\ urlStr[n] = "%" /\ urlStr[n + 1] = "z"
          /\ \A m \in 1..n : urlStr[m] # "?"

\* C22: buildURL with parameters on the builder returns the resolved URL
\* unchanged if it does not parse; otherwise the query of the result holds every
\* piece of the query the URL had and every parameter of the builder, each as
\* often as it was given.
C22_QueryMerged ==
    (fn.name = "buildURL" /\ fn.ret # <<>>) =>
        LET fullURL == resolveURL(fn.args[1], fn.args[2])
            was == C22_Read(C22_Pieces(fullURL)) \o C22_BuilderPieces(fn.args[3])
            now == C22_Read(C22_Pieces(fn.ret[1]))
        IN  IF fn.args[3] = <<>> \/ C22_Unparsable(fullURL)
            THEN fn.ret[1] = fullURL
            ELSE \A n \in 1..Len(was) : C22_Count(now, was[n]) = C22_Count(was, was[n])

\* The same for URLs whose query unescapes piece by piece, the only ones
\* parsedUrl.Query() reads in full.
C22_WellFormedMerged ==
    (fn.name = "buildURL" /\ ~BadEscape(fn.args[2])) => C22_QueryMerged

\* A URL with a query of its own has got a second value for the same key.
C22_Witness ==
    /\ fn.name = "buildURL"
    /\ fn.args[2] = <<"/", "u", "?", "a", "=", "1">>
    /\ fn.ret = << <<"/", "u", "?", "a", "=", "1", "&", "a", "=", "2">> >>

\* The value of the URL is gone once the builder adds its own.
C22_MalformedPairLost ==
    ~(/\ fn.name = "buildURL"
      /\ fn.args[2] = <<"/", "u", "?", "a", "=", "%", "z", "z">>
      /\ fn.ret = << <<"/", "u", "?", "n", "=", "1">> >>)

\* A JSON() or XML() call of the builder was given a value it cannot marshal.
C23_Failed(call) ==
    \/ call.op = "JSON" /\ call.v = "chan"
    \/ call.op = "XML" /\ call.v \in {"chan", "map"}
C23_AnyFailed == \E n \in 1..Len(rb.calls) : C23_Failed(rb.calls[n])

\* C23: once a JSON() or XML() call failed to marshal, Do returns a marshalling
\* error and nothing is sent, whatever was called on the builder afterwards.
C23_MarshalErrorSticks ==
    (rb.pc = "done" /\ C23_AnyFailed) =>
        /\ rb.ret \in {"json: unsupported type", "xml: unsupported type"}
        /\ rb.sent = 0

\* Do after a failed JSON(), then a successful JSON() and a Body().
C23_Witness ==
    /\ rb.pc = "done"
    /\ rb.calls = <<[op |-> "JSON", v |-> "chan"], [op |-> "JSON", v |-> "struct"],
                    [op |-> "Body", v |-> "reader"]>>
    /\ rb.ret = "json: unsupported type"
    /\ rb.sent = 0

\* The headers of a request object.
C24_Headers(q) == <<q.auth, q.header>>

\* No step changes the headers of a request object that exists.
C24_RequestsKept ==
    \A i \in 1..Len(reqs) : i <= Len(reqs') /\ C24_Headers(reqs'[i]) = C24_Headers(reqs[i])

\* What a wrapper passed on is another object, and it carries the wrapper's headers.
C24_PassedClone ==
    \A i \in 1..(Depth - 1) :
        LET kind == KindOf(stack[i])
            inner == reqs[stack[i + 1].req]
            hs == client.transport[i].headers
        IN  kind \in {"auth", "baseAuth", "headerTransport"} =>
                /\ stack[i + 1].req # stack[i].req
                /\ kind = "auth" => inner.auth = "Bearer"
                /\ kind = "baseAuth" => inner.auth = "Basic"
                /\ kind = "headerTransport" =>
                      \A k \in DOMAIN hs :
                          IF k = "Authorization" THEN inner.auth = hs[k]
                          ELSE HeaderGet(inner.header, k) = hs[k]

\* C24: the header, bearer-auth and basic-auth wrappers set their headers on a
\* clone and pass the clone on; the headers of the request they were given are
\* the same after RoundTrip as before.
C24_ClonedNotModified == []C24_PassedClone /\ [][C24_RequestsKept]_vars

\* A bearer-auth wrapper inside a header wrapper: both have returned, and the
\* caller's request still has its own Authorization and X-App headers.
C24_Witness ==
    /\ phase = "done"
    /\ opts = <<WithAuthorization, WithHeaderTransport([k \in {"X-App"} |-> "1"])>>
    /\ result.err = "nil"
    /\ reqs[1].auth = "Own" /\ HeaderGet(reqs[1].header, "X-App") = "0"
    /\ Len(reqs) = 3
    /\ HeaderGet(reqs[2].header, "X-App") = "1" /\ reqs[2].auth = "Own"
    /\ reqs[3].auth = "Bearer"

\* C25: client.mu is not held by a request that is inside the transport chain,
\* waiting for the network or sleeping in its retry loop; and while one request
\* is there, any other request that is not finished can take its next step,
\* unless a third one holds the mutex.
C25_NotBlocking ==
    \A g \in DOMAIN gs :
        /\ gs[g].pc \in {"send", "wait", "sleep"} => mu # g
        /\ \A h \in DOMAIN gs \ {g} :
              (/\ gs[g].pc \in {"wait", "sleep"}
               /\ gs[h].pc # "done"
               /\ mu \in {0, g, h}) => ENABLED Step(h)

\* A request that began while another one was in its backoff sleep is done, and
\* that one is still in the same sleep.
C25_Witness ==
    \E g, h \in DOMAIN gs :
        /\ gs[g].pc = "sleep"
        /\ gs[g].attempt = SleepMaxRetries
        /\ gs[h].pc = "done"
        /\ g \in gs[h].asleep
        /\ gs[h].resp = [to |-> h, status |-> 200]

\* C26: with debug enabled the inner transport receives the request body and
\* the caller reads the response body exactly as with debug disabled, bodies
\* longer than MaxBodySize included.
C26_BodiesUnchanged ==
    (fn.name = "DebugTransport.RoundTrip" /\ fn.ret # <<>>) =>
        fn.ret[1] = [inner |-> fn.args[3], caller |-> fn.args[4]]

\* The same for bodies of at most MaxBodySize bytes.
C26_ShortBodiesUnchanged ==
    (/\ fn.name = "DebugTransport.RoundTrip"
     /\ Len(fn.args[3]) <= fn.args[2]
     /\ Len(fn.args[4]) <= fn.args[2]) => C26_BodiesUnchanged

\* Debug is on and both bodies are one byte longer than MaxBodySize: each has
\* lost its last byte.
C26_Truncated ==
    ~(/\ fn.name = "DebugTransport.RoundTrip"
      /\ fn.args = <<TRUE, 2, <<1, 2, 3>>, <<1, 2, 3>> >>
      /\ fn.ret = << [inner |-> <<1, 2>>, caller |-> <<1, 2>>] >>)

\* The complete body of the response is wanted: the bytes on the wire, decoded
\* if the response is gzip-encoded (and then the wire must be a gzip stream).
C27_IsWholeBody(bytes) ==
    IF isGzipEncoded(r.encoding)
    THEN decodeGzipBody(r.wire).err = "nil" /\ bytes = decodeGzipBody(r.wire).bytes
    ELSE bytes = r.wire

\* C27: a Bytes() call that returns a nil error returns the complete (decoded)
\* body, also after an earlier call failed, and nothing else is ever cached.
C27_SuccessIsWholeBody ==
    /\ (out.op # "none" /\ out.err \in {"nil", "parse error"}) => C27_IsWholeBody(out.bytes)
    /\ r.cached => C27_IsWholeBody(r.body)

\* A response marked gzip whose body is not gzip: the first call failed in the
\* decoder, the second has succeeded with no bytes and cached them.
C27_EmptyAfterFailure ==
    ~(/\ hist.calls = 2
      /\ hist.decodes = 2
      /\ isGzipEncoded(r.encoding)
      /\ r.wire # <<>>
      /\ out.err = "nil" /\ out.bytes = <<>>
      /\ r.cached /\ r.body = <<>>)

\* C28: for a request with Timeout(d > 0) that Do answered before d elapsed,
\* the context made by Do is live when Do returns, and reading the Body of the
\* response does not fail.
C28_LiveAtReturn ==
    (tmo.pc \in {"answered", "read"} /\ tmo.timeout > 0 /\ tmo.now < tmo.ctxDeadline) =>
        /\ tmo.ctx = "live"
        /\ tmo.bodyErr \in {"none", "nil"}

\* Do returned a response one second into a three-second timeout, and reading
\* its Body failed.
C28_ReadCancelled ==
    ~(/\ tmo.pc = "read"
      /\ tmo.timeout = 3 /\ tmo.now = 1 /\ tmo.clientTimeout = 0
      /\ tmo.ctx = "cancelled"
      /\ tmo.bodyErr = "context canceled")

\* Without Timeout(d) there is no context of Do's to cancel, and the read succeeds.
C28_NoTimeoutReads ==
    (tmo.pc = "read" /\ tmo.timeout = 0) => tmo.ctx = "none" /\ tmo.bodyErr = "nil"

\* C29: when retryTransport.RoundTrip returns, the Body of every response it
\* gave up in order to retry has been closed.
C29_DroppedClosed ==
    \A i \in RetryFrames :
        stack[i].pc = "done" =>
            \A n \in 1..Len(stack[i].dropped) : stack[i].dropped[n].closed

\* The wrapper returns the 200 of its second attempt; the Body of the 500 of
\* the first is still open.
C29_LeftOpen ==
    ~(\E i \in RetryFrames :
        LET f == stack[i] IN
        /\ f.pc = "done"
        /\ f.resp.status = 200
        /\ f.calls = 2
        /\ Len(f.dropped) = 1 /\ ~f.dropped[1].closed /\ f.dropped[1].id # f.resp.id)

\* C30: whatever the RetryConfig, a negative MaxRetries included, when
\* retryTransport.RoundTrip returns it has called its inner transport at least
\* once, and it does not return a nil response with a nil error.
C30_AttemptedOnce ==
    \A i \in RetryFrames :
        stack[i].pc = "done" =>
            /\ stack[i].calls >= 1
            /\ ~(stack[i].resp = NilResp /\ stack[i].err = "nil")

\* The same for the configurations with MaxRetries >= 0.
C30_NonNegativeAttempted ==
    (\A i \in RetryFrames : ConfigOf(stack[i]).MaxRetries >= 0) => C30_AttemptedOnce

\* MaxRetries is -1: RoundTrip has returned nil, nil and the base transport was
\* never called.
C30_NilNil ==
    ~(/\ phase = "done"
      /\ opts[1].config.MaxRetries = -1
      /\ result = [resp |-> NilResp, err |-> "nil"]
      /\ baseCalls = 0)

====
